---- MODULE Spec2Model ----
(***************************************************************************)
(* The PRP proof subsystem of gpuowl (src/src/Proof.cpp): the proof-point  *)
(* set of a ProofSet, its residue cache on disk, the proof builder         *)
(* (ProofSet::computeProof) and the proof verifier (Proof::verify).        *)
(*                                                                         *)
(* Several specifications share the variables below:                       *)
(*   SpecSet    the ProofSet constructor and ProofSet::next                *)
(*   Spec       the residue cache: save / load / fileExists / isValidTo /  *)
(*              effectivePower, with a process crash inside save           *)
(*   SpecResume a complete cache that loses one file, then effectivePower  *)
(*   SpecProof  computeProof on an honest cache followed by verify         *)
(***************************************************************************)
EXTENDS Integers, Sequences, FiniteSets, TLC

\* ------------------------------------------------------------------------
\* Bounds of the model
\* ------------------------------------------------------------------------
\* largest proof power a ProofSet is built with
MaxPower == 4
\* challenges drawn for the hash are in 0..MaxChallenge
MaxChallenge == 2
\* residues handed to save are makeWords(E, v) for v in 1..MaxResidue
MaxResidue == 2
\* torn files a crashed save may leave beside the one being written
MaxTorn == 1

\* ------------------------------------------------------------------------
\* Program constants
\* ------------------------------------------------------------------------
\* the largest proof power the constructor accepts (power > 12 throws)
MAX_POWER == 12
\* the guard element u32(-1) the constructor appends to points. The model's
\* integers are 32-bit signed, so the guard is the largest of those; it is
\* only ever compared with iteration indices, all of them far below it.
GUARD == 2147483647

\* ------------------------------------------------------------------------
\* State
\* ------------------------------------------------------------------------
VARIABLES
  E,         \* the exponent of the ProofSet / Proof
  power,     \* the proof power requested
  pc,        \* position of the (single-threaded) program
  points,    \* ProofSet::points: sorted proof points, then the guard
  cacheIt,   \* ProofSet::cacheIt as a 1-based index into points
  dirMade,   \* whether proofPath(E) was created by the constructor
  files,     \* the cache directory: file name k -> content (words), or NoFile
  call,      \* the operation in progress or last finished, with its result
  oracle,    \* SHA3 as a lazily sampled function: input -> digest
  bld,       \* locals of ProofSet::computeProof
  prf,       \* the Proof handed to Proof::verify
  ver,       \* locals of Proof::verify
  proofFile, \* the bytes of the .proof file, or NoFile
  work       \* the worktodo files and the instances running getWork

vars == <<E, power, pc, points, cacheIt, dirMade, files, call, oracle, bld, prf, ver, proofFile, work>>

\* ------------------------------------------------------------------------
\* Arithmetic helpers
\* ------------------------------------------------------------------------
RECURSIVE Pow2(_)
Pow2(n) == IF n = 0 THEN 1 ELSE 2 * Pow2(n - 1)

\* span = (span + 1) / 2
halfSpan_Floor(span) == span \div 2

halfSpan(span) == (span + 1) \div 2

Max(S) == CHOOSE x \in S : \A y \in S : y <= x

\* std::sort on a vector<u32>: the ascending arrangement of the elements,
\* position i holding the value that has fewer than i elements below it and
\* at least i elements not above it
sortSeq(s) ==
  [i \in 1..Len(s) |->
     CHOOSE v \in {s[j] : j \in 1..Len(s)} :
       /\ Cardinality({j \in 1..Len(s) : s[j] < v}) < i
       /\ Cardinality({j \in 1..Len(s) : s[j] <= v}) >= i]

\* std::upper_bound(points.begin(), points.end(), k): index of the first
\* element greater than k, Len + 1 for end()
upperBound(pts, k) ==
  IF \E j \in 1..Len(pts) : pts[j] > k
  THEN CHOOSE j \in 1..Len(pts) : pts[j] > k /\ \A m \in 1..(j - 1) : pts[m] <= k
  ELSE Len(pts) + 1

\* ------------------------------------------------------------------------
\* ProofSet::isInPoints
\* ------------------------------------------------------------------------
\* the walk of the loop: result "yes" / "no", or "assert" when
\* assert(k >= start) fails
RECURSIVE isInPointsWalk(_, _, _, _, _)
isInPointsWalk(pw, k, p, span, start) ==
  IF p >= pw THEN "no"
  ELSE IF k < start THEN "assert"
  ELSE IF k > start + span THEN isInPointsWalk(pw, k, p + 1, halfSpan(span), start + span)
  ELSE IF k = start + span THEN "yes"
  ELSE isInPointsWalk(pw, k, p + 1, halfSpan(span), start)

isInPointsRun(e, pw, k) ==
  IF k = e THEN "yes" ELSE isInPointsWalk(pw, k, 0, (e + 1) \div 2, 0)

isInPoints(e, pw, k) == isInPointsRun(e, pw, k) = "yes"

\* ------------------------------------------------------------------------
\* ProofSet::ProofSet
\* ------------------------------------------------------------------------
\* the doubling loop: every level appends points[i] + span for the points
\* present at its start
RECURSIVE buildPoints(_, _, _, _)
buildPoints(pts, p, span, pw) ==
  IF p >= pw THEN pts
  ELSE buildPoints(pts \o [i \in 1..Len(pts) |-> pts[i] + span], p + 1, halfSpan(span), pw)

\* for (u32 span = (E + 1) / 2; spans.size() < power; span = (span + 1) / 2)
\*   spans.push_back(span)
RECURSIVE spansFrom(_, _, _)
spansFrom(acc, span, pw) ==
  IF Len(acc) >= pw THEN acc ELSE spansFrom(Append(acc, span), halfSpan(span), pw)

spans(e, pw) == spansFrom(<<>>, (e + 1) \div 2, pw)

rawPoints(e, pw) == buildPoints(<<0>>, 0, (e + 1) \div 2, pw)

\* points.front() = E; std::sort(points)
sortedPoints(e, pw) ==
  LET raw == rawPoints(e, pw)
  IN sortSeq([i \in 1..Len(raw) |-> IF i = 1 THEN e ELSE raw[i]])

\* if (power <= 0 || power > 12)
badPower_ZeroAccepted(pw) == pw > MAX_POWER

badPower(pw) == pw <= 0 \/ pw > MAX_POWER

\* The constructor, in the order of its statements. status is "ok",
\* "throw" (Invalid proof power) or "assert" (a failed assertion aborts the
\* process); failed names the assertion.
ctor(e, pw) ==
  IF e % 2 # 1
    THEN [status |-> "assert", failed |-> "E & 1", dir |-> FALSE, pts |-> <<>>]
  ELSE IF badPower(pw)
    THEN [status |-> "throw", failed |-> "", dir |-> FALSE, pts |-> <<>>]
  ELSE
    LET raw    == rawPoints(e, pw)
        sorted == sortedPoints(e, pw)
        all    == sorted \o <<GUARD>>
    IN IF Len(raw) # Pow2(pw)
         THEN [status |-> "assert", failed |-> "points.size() == (1u << power)", dir |-> TRUE, pts |-> raw]
       ELSE IF raw[1] # 0
         THEN [status |-> "assert", failed |-> "points.front() == 0", dir |-> TRUE, pts |-> raw]
       ELSE IF sorted[Len(sorted)] # e
         THEN [status |-> "assert", failed |-> "points.back() == E", dir |-> TRUE, pts |-> sorted]
       ELSE IF \E j \in 1..Len(all) : ~(all[j] > e \/ isInPoints(e, pw, all[j]))
         THEN [status |-> "assert", failed |-> "p > E || isInPoints(E, power, p)", dir |-> TRUE, pts |-> all]
       ELSE [status |-> "ok", failed |-> "", dir |-> TRUE, pts |-> all]

\* ------------------------------------------------------------------------
\* ProofSet::next
\* ------------------------------------------------------------------------
\* the iterator after next(k): moved by upper_bound only when the cached
\* position does not bracket k
nextIt_NoRewind(pts, it, k) ==
  IF pts[it] <= k THEN upperBound(pts, k) ELSE it

nextIt(pts, it, k) ==
  IF pts[it] <= k \/ (it > 1 /\ pts[it - 1] > k)
  THEN upperBound(pts, k)
  ELSE it

\* ------------------------------------------------------------------------
\* Inputs
\* ------------------------------------------------------------------------
\* the exponents: odd primes small enough to enumerate every iteration
Exps == {3, 5, 7, 11, 13}

\* the exponents of the resume scenario, among them 521 of the cache-resume
\* test
ResumeExps == {7, 13, 127, 521}

\* the powers handed to the constructor: the valid ones up to MaxPower and
\* the two nearest invalid ones
PowerInputs == (0..MaxPower) \cup {MAX_POWER + 1}

\* no file at a path: what no sequence of u32 words can be
\* the exponents of the proof scenario: 23 is the smallest one the
\* constructor accepts with power 4
ProofExps == {3, 5, 7, 11, 13, 23}

NoFile == <<-1>>
NoCall == [op |-> "none"]
NoBuild == [step |-> "none"]
NoProof == [E |-> 0]
NoVerify == [step |-> "none"]
NoWork == [step |-> "none"]

\* ------------------------------------------------------------------------
\* SpecSet: the constructor and next
\* ------------------------------------------------------------------------
InitSet ==
  /\ E \in Exps
  /\ power \in PowerInputs
  /\ pc = "new"
  /\ points = <<>>
  /\ cacheIt = 0
  /\ dirMade = FALSE
  /\ files = [k \in {} |-> NoFile]
  /\ call = NoCall
  /\ oracle = [x \in {} |-> 0]
  /\ bld = NoBuild
  /\ prf = NoProof
  /\ ver = NoVerify
  /\ proofFile = NoFile
  /\ work = NoWork

\* ProofSet{E, knownFactors, power}
Construct ==
  /\ pc = "new"
  /\ LET c == ctor(E, power)
     IN /\ pc' = (IF c.status = "ok" THEN "ready" ELSE c.status)
        /\ points' = c.pts
        /\ cacheIt' = (IF c.status = "ok" THEN 1 ELSE 0)
        /\ dirMade' = c.dir
        /\ call' = [op |-> "ctor", failed |-> c.failed]
  /\ UNCHANGED <<E, power, files, oracle, bld, prf, ver, proofFile, work>>

\* proofSet.next(k) for an iteration index k; k = E + 1 stands for every
\* index past the end
CallNext ==
  /\ pc = "ready"
  /\ \E k \in 0..(E + 1) :
       /\ cacheIt' = nextIt(points, cacheIt, k)
       /\ call' = [op |-> "next", arg |-> k, from |-> cacheIt, ret |-> points[cacheIt']]
  /\ UNCHANGED <<E, power, pc, points, dirMade, files, oracle, bld, prf, ver, proofFile, work>>

NextSet == Construct \/ CallNext

SpecSet == InitSet /\ [][NextSet]_vars

\* the point list without its guard element
pointList == SubSeq(points, 1, Len(points) - 1)

pointSet == {points[j] : j \in 1..(Len(points) - 1)}

\* ------------------------------------------------------------------------
\* Words, the checked file format and the cache directory
\* ------------------------------------------------------------------------
\* the number of 32-bit words of a cached residue: readChecked<u32>(E/32 + 1)
nWords(e) == e \div 32 + 1

\* makeWords(E, value): the residue `value` as nWords little-endian words
makeWords(e, v) == [i \in 1..nWords(e) |-> IF i = 1 THEN v ELSE 0]

\* the checksum writeChecked appends and readChecked recomputes
RECURSIVE crcFold(_, _)
crcFold(words, c) ==
  IF words = <<>> THEN c
  ELSE crcFold(Tail(words), (c * 31 + Head(words) + 1) % 65521)

crc32(words) == crcFold(words, 7)

\* File::writeChecked(words): the words, then their checksum
writeChecked(words) == words \o <<crc32(words)>>

\* File::openReadThrow(path).readChecked<u32>(n): throws when the file is
\* missing, shorter than n words and a checksum, or fails the checksum
readChecked(f, n) ==
  IF f = NoFile \/ Len(f) < n + 1 THEN [status |-> "throw", words |-> <<>>]
  ELSE IF f[n + 1] # crc32(SubSeq(f, 1, n)) THEN [status |-> "throw", words |-> <<>>]
  ELSE [status |-> "ok", words |-> SubSeq(f, 1, n)]

fileAt(fs, k) == IF k \in DOMAIN fs THEN fs[k] ELSE NoFile

\* File::size(path) in bytes; a missing file has no size
fileSize(f) == IF f = NoFile THEN -1 ELSE 4 * Len(f)

\* the file store with the file named k replaced
putFile(fs, k, f) == [n \in (DOMAIN fs) \cup {k} |-> IF n = k THEN f ELSE fs[n]]

\* the file proofPath(E) / to_string(k) that save writes
savePath_Shifted(k) == k + 1

savePath(k) == k

\* ------------------------------------------------------------------------
\* ProofSet::fileExists, load, isValidTo, canDo, effectivePower
\* ------------------------------------------------------------------------
fileExists_NoChecksum(fs, e, k) == fileSize(fileAt(fs, k)) = (e \div 32 + 1) * 4

fileExists(fs, e, k) == fileSize(fileAt(fs, k)) = (e \div 32 + 2) * 4

\* ProofSet::load(E, power, k)
load(fs, e, pw, k) ==
  IF ~(k # 0 /\ k <= e) \/ ~isInPoints(e, pw, k)
  THEN [status |-> "assert", words |-> <<>>]
  ELSE readChecked(fileAt(fs, savePath(k)), e \div 32 + 1)

\* while (it != points.begin()) { if (!fileExists(*--it)) { return false; } }
RECURSIVE validLoop(_, _, _, _)
validLoop_SkipFirst(pts, fs, e, it) ==
  IF it <= 2 THEN TRUE
  ELSE IF ~fileExists(fs, e, pts[it - 1]) THEN FALSE
  ELSE validLoop(pts, fs, e, it - 1)

validLoop(pts, fs, e, it) ==
  IF it = 1 THEN TRUE
  ELSE IF ~fileExists(fs, e, pts[it - 1]) THEN FALSE
  ELSE validLoop(pts, fs, e, it - 1)

\* ProofSet::isValidTo(limitK) on a ProofSet with the points pts
isValidTo(pts, fs, e, pw, limitK) ==
  LET ub == upperBound(pts, limitK)
  IN IF ub = 1 THEN [status |-> "ok", ret |-> TRUE]
     ELSE LET it == ub - 1
              l  == load(fs, e, pw, pts[it])
          IN IF l.status = "assert" THEN [status |-> "assert", ret |-> FALSE]
             ELSE IF l.status = "throw" THEN [status |-> "ok", ret |-> FALSE]
             ELSE [status |-> "ok", ret |-> validLoop(pts, fs, e, it)]

\* the constructor's result for every exponent and power of the model,
\* computed once
ctorTable == [e \in Exps \cup ResumeExps \cup ProofExps |-> [pw \in 0..(MaxPower + 1) |-> ctor(e, pw)]]

ProofSetOf(e, pw) ==
  IF e \in DOMAIN ctorTable /\ pw \in 0..(MaxPower + 1) THEN ctorTable[e][pw] ELSE ctor(e, pw)

\* ProofSet::canDo: a ProofSet of that power, then isValidTo
canDo(fs, e, pw, currentK) ==
  IF ~(pw > 0 /\ pw <= MAX_POWER) THEN [status |-> "assert", ret |-> FALSE]
  ELSE LET c == ProofSetOf(e, pw)
       IN IF c.status # "ok" THEN [status |-> c.status, ret |-> FALSE]
          ELSE isValidTo(c.pts, fs, e, pw, currentK)

\* for (u32 p = power; p > 0; --p) { if (canDo(...)) { return p; } } return 0
RECURSIVE effLoop(_, _, _, _)
effLoop_StopAboveOne(fs, e, p, currentK) ==
  IF p <= 1 THEN [status |-> "ok", ret |-> 0]
  ELSE LET c == canDo(fs, e, p, currentK)
       IN IF c.status # "ok" THEN [status |-> c.status, ret |-> 0]
          ELSE IF c.ret THEN [status |-> "ok", ret |-> p]
          ELSE effLoop(fs, e, p - 1, currentK)

effLoop(fs, e, p, currentK) ==
  IF p <= 0 THEN [status |-> "ok", ret |-> 0]
  ELSE LET c == canDo(fs, e, p, currentK)
       IN IF c.status # "ok" THEN [status |-> c.status, ret |-> 0]
          ELSE IF c.ret THEN [status |-> "ok", ret |-> p]
          ELSE effLoop(fs, e, p - 1, currentK)

effectivePower(fs, e, pw, currentK) == effLoop(fs, e, pw, currentK)

\* ------------------------------------------------------------------------
\* Spec: the residue cache of one ProofSet
\* ------------------------------------------------------------------------
\* the ProofSets <<E, power>> whose cache is exercised
CacheSets == {<<3, 1>>, <<3, 2>>, <<5, 1>>, <<5, 2>>, <<7, 1>>, <<7, 2>>}

\* the residues handed to save
SaveWords == {makeWords(E, v) : v \in 1..MaxResidue}

\* a file a crashed save left behind: present with another size than
\* fileExists accepts
isTorn(fs, e, k) == k \in DOMAIN fs /\ ~fileExists(fs, e, k)

Init ==
  /\ \E cs \in CacheSets : E = cs[1] /\ power = cs[2]
  /\ pc = "ready"
  /\ points = ProofSetOf(E, power).pts
  /\ cacheIt = 1
  /\ dirMade = TRUE
  /\ files = [k \in {} |-> NoFile]
  /\ call = NoCall
  /\ oracle = [x \in {} |-> 0]
  /\ bld = NoBuild
  /\ prf = NoProof
  /\ ver = NoVerify
  /\ proofFile = NoFile
  /\ work = NoWork

\* save(k, words) up to File::openWrite: the two assertions, then the file
\* at the final path is created or truncated
SaveBegin ==
  /\ pc = "ready"
  /\ \E k \in 0..E, w \in SaveWords :
       IF ~(k # 0 /\ k <= E) \/ ~isInPoints(E, power, k)
       THEN /\ pc' = "assert"
            /\ call' = [op |-> "save", k |-> k]
            /\ files' = files
       ELSE /\ pc' = "save_opened"
            /\ call' = [op |-> "save", k |-> k, words |-> w]
            /\ files' = putFile(files, savePath(k), <<>>)
  /\ UNCHANGED <<E, power, points, cacheIt, dirMade, oracle, bld, prf, ver, proofFile, work>>

\* writeChecked: the words reach the file
SaveWriteWords ==
  /\ pc = "save_opened"
  /\ pc' = "save_words"
  /\ files' = putFile(files, savePath(call.k), call.words)
  /\ UNCHANGED <<E, power, points, cacheIt, dirMade, call, oracle, bld, prf, ver, proofFile, work>>

\* writeChecked: the checksum follows and the file is closed
SaveWriteCrc ==
  /\ pc = "save_words"
  /\ pc' = "save_written"
  /\ files' = putFile(files, savePath(call.k), writeChecked(call.words))
  /\ UNCHANGED <<E, power, points, cacheIt, dirMade, call, oracle, bld, prf, ver, proofFile, work>>

\* assert(load(E, power, k) == words), and save returns
SaveCheck ==
  /\ pc = "save_written"
  /\ LET l == load(files, E, power, call.k)
     IN pc' = (IF l.status = "ok" /\ l.words = call.words THEN "ready" ELSE "assert")
  /\ call' = [op |-> "saved", k |-> call.k, words |-> call.words]
  /\ UNCHANGED <<E, power, points, cacheIt, dirMade, files, oracle, bld, prf, ver, proofFile, work>>

\* the process dies inside save, whatever it had written stays on disk, and
\* the worker is started again on the same exponent and power
CrashRestart ==
  /\ pc \in {"save_opened", "save_words", "save_written"}
  /\ Cardinality({k \in DOMAIN files : k # savePath(call.k) /\ isTorn(files, E, k)}) < MaxTorn
  /\ LET c == ProofSetOf(E, power)
     IN /\ pc' = (IF c.status = "ok" THEN "ready" ELSE c.status)
        /\ points' = c.pts
        /\ cacheIt' = 1
        /\ dirMade' = c.dir
  /\ call' = NoCall
  /\ UNCHANGED <<E, power, files, oracle, bld, prf, ver, proofFile, work>>

\* load(k)
CallLoad ==
  /\ pc = "ready"
  /\ \E k \in 0..E :
       LET l == load(files, E, power, k)
       IN /\ pc' = (IF l.status = "assert" THEN "assert" ELSE "returned")
          /\ call' = [op |-> "load", k |-> k, status |-> l.status, ret |-> l.words]
  /\ UNCHANGED <<E, power, points, cacheIt, dirMade, files, oracle, bld, prf, ver, proofFile, work>>

\* fileExists(k)
CallFileExists ==
  /\ pc = "ready"
  /\ \E k \in pointSet :
       call' = [op |-> "fileExists", k |-> k, ret |-> fileExists(files, E, k)]
  /\ pc' = "returned"
  /\ UNCHANGED <<E, power, points, cacheIt, dirMade, files, oracle, bld, prf, ver, proofFile, work>>

\* isValidTo(limitK)
CallIsValidTo ==
  /\ pc = "ready"
  /\ \E limitK \in 0..(E + 1) :
       LET v == isValidTo(points, files, E, power, limitK)
       IN /\ pc' = (IF v.status = "ok" THEN "returned" ELSE v.status)
          /\ call' = [op |-> "isValidTo", limitK |-> limitK, status |-> v.status, ret |-> v.ret]
  /\ UNCHANGED <<E, power, points, cacheIt, dirMade, files, oracle, bld, prf, ver, proofFile, work>>

\* ProofSet::effectivePower(E, knownFactors, pw, currentK)
CallEffectivePower ==
  /\ pc = "ready"
  /\ \E pw \in 0..MaxPower, currentK \in 0..(E + 1) :
       LET r == effectivePower(files, E, pw, currentK)
       IN /\ pc' = (IF r.status = "ok" THEN "returned" ELSE r.status)
          /\ call' = [op |-> "effectivePower", pw |-> pw, currentK |-> currentK,
                      status |-> r.status, ret |-> r.ret]
  /\ UNCHANGED <<E, power, points, cacheIt, dirMade, files, oracle, bld, prf, ver, proofFile, work>>

Next ==
  \/ SaveBegin \/ SaveWriteWords \/ SaveWriteCrc \/ SaveCheck
  \/ CrashRestart
  \/ CallLoad \/ CallFileExists \/ CallIsValidTo \/ CallEffectivePower

Spec == Init /\ [][Next]_vars

\* ------------------------------------------------------------------------
\* SpecResume: a complete cache loses one file, then effectivePower
\* ------------------------------------------------------------------------
\* the cache after a PRP run saved every proof point
completeCache(e, pts) ==
  [k \in {pts[j] : j \in 1..(Len(pts) - 1)} |-> writeChecked(makeWords(e, 1 + (k % MaxResidue)))]

InitResume ==
  /\ E \in ResumeExps
  /\ power \in 1..MaxPower
  /\ ProofSetOf(E, power).status = "ok"
  /\ pc = "ready"
  /\ points = ProofSetOf(E, power).pts
  /\ cacheIt = 1
  /\ dirMade = TRUE
  /\ files = completeCache(E, ProofSetOf(E, power).pts)
  /\ call = NoCall
  /\ oracle = [x \in {} |-> 0]
  /\ bld = NoBuild
  /\ prf = NoProof
  /\ ver = NoVerify
  /\ proofFile = NoFile
  /\ work = NoWork

\* the file of one non-terminal proof point is removed from the directory
RemoveFile ==
  /\ pc = "ready"
  /\ call = NoCall
  /\ \E q \in pointSet \ {E} :
       /\ files' = [k \in (DOMAIN files) \ {q} |-> files[k]]
       /\ call' = [op |-> "removed", q |-> q]
  /\ UNCHANGED <<E, power, pc, points, cacheIt, dirMade, oracle, bld, prf, ver, proofFile, work>>

\* on resume: effectivePower(E, knownFactors, power, currentK = E)
ResumeEffectivePower ==
  /\ pc = "ready"
  /\ LET r == effectivePower(files, E, power, E)
     IN /\ pc' = (IF r.status = "ok" THEN "returned" ELSE r.status)
        /\ call' = [op |-> "effectivePower", pw |-> power, currentK |-> E,
                    status |-> r.status, ret |-> r.ret]
  /\ UNCHANGED <<E, power, points, cacheIt, dirMade, files, oracle, bld, prf, ver, proofFile, work>>

NextResume == RemoveFile \/ ResumeEffectivePower

SpecResume == InitResume /\ [][NextResume]_vars

\* ------------------------------------------------------------------------
\* The engine: arithmetic modulo 2^E - 1 on residues held as words
\* ------------------------------------------------------------------------
\* the Mersenne number 2^E - 1
mersenne(e) == Pow2(e) - 1

\* a * b mod m by doubling, every intermediate value below 3 * m
RECURSIVE mulMod(_, _, _)
mulMod(a, b, m) ==
  IF b = 0 THEN 0
  ELSE (2 * mulMod(a, b \div 2, m) + (IF b % 2 = 1 THEN a ELSE 0)) % m

RECURSIVE powMod(_, _, _)
powMod(x, h, m) ==
  IF h = 0 THEN 1 % m
  ELSE mulMod(IF h % 2 = 1 THEN x ELSE 1,
              powMod(mulMod(x, x, m), h \div 2, m), m)

\* the value of a residue of at most one word
valueOf(words) == words[1]

\* gpu->expMul(X, h, Y, doSquareY): X^h * Y, or X^h * Y^2
expMul(e, X, h, Y, doSquareY) ==
  LET m == mersenne(e)
      y == IF doSquareY THEN mulMod(valueOf(Y), valueOf(Y), m) ELSE valueOf(Y)
  IN makeWords(e, mulMod(powMod(valueOf(X), h, m), y, m))

\* gpu->expExp2(A, n): n squarings
RECURSIVE expExp2(_, _, _)
expExp2(e, A, n) ==
  IF n = 0 THEN A
  ELSE LET \* the square is a number before the next squaring starts
           sq == mulMod(valueOf(A), valueOf(A), mersenne(e))
       IN IF sq >= 0 THEN expExp2(e, makeWords(e, sq), n - 1) ELSE A

\* gpu->readAndCompress(buf): the residue, empty when it is zero
readAndCompress(w) == IF valueOf(w) = 0 THEN <<>> ELSE w

\* the PRP residues R_k = 3^(2^k) mod 2^E - 1 of every exponent, computed once
residueTable ==
  [e \in ProofExps |-> [k \in 0..e |-> valueOf(expExp2(e, makeWords(e, 3 % mersenne(e)), k))]]

\* the cache after an exact PRP run saved R_k at every proof point k
honestCache(e, pts) ==
  [k \in {pts[j] : j \in 1..(Len(pts) - 1)} |-> writeChecked(makeWords(e, residueTable[e][k]))]

\* ------------------------------------------------------------------------
\* proof::hashWords
\* ------------------------------------------------------------------------
\* words.data() read as (E - 1) / 8 + 1 bytes, little endian
bytesLE(e, words) ==
  [j \in 1..((e - 1) \div 8 + 1) |->
     (words[(j - 1) \div 4 + 1] \div Pow2(8 * ((j - 1) % 4))) % 256]

\* what SHA3 absorbs: hashWords(E, words) has no prefix, hashWords(E,
\* prefix, words) absorbs the digest before the bytes
hashInput_NoPrefix(e, prefix, words) == [prefix |-> <<>>, bytes |-> bytesLE(e, words)]

hashInput(e, prefix, words) == [prefix |-> prefix, bytes |-> bytesLE(e, words)]

NoPrefix == <<>>

\* SHA3 as a function sampled on first use: d is the digest of input x.
\* Of the digest's four u64 the model keeps hash[0], the challenge.
sha3Is(orc, x, d) == IF x \in DOMAIN orc THEN d = orc[x] ELSE d \in 0..MaxChallenge

sampled(orc, x, d) == [y \in (DOMAIN orc) \cup {x} |-> IF y = x THEN d ELSE orc[y]]

\* ------------------------------------------------------------------------
\* SpecProof: computeProof on the cache of an exact PRP run, then verify
\* ------------------------------------------------------------------------
InitProof ==
  /\ E \in ProofExps
  /\ power \in 1..MaxPower
  /\ ProofSetOf(E, power).status = "ok"
  /\ pc = "ready"
  /\ points = ProofSetOf(E, power).pts
  /\ cacheIt = 1
  /\ dirMade = TRUE
  /\ files = honestCache(E, ProofSetOf(E, power).pts)
  /\ call = NoCall
  /\ oracle = [x \in {} |-> 0]
  /\ bld = NoBuild
  /\ prf = NoProof
  /\ ver = NoVerify
  /\ proofFile = NoFile
  /\ work = NoWork

\* the index into points that segment i of level p loads
segIndex_EveryMultiple(pw, p, i) == Pow2(pw - p - 1) * (i + 1) - 1

segIndex(pw, p, i) == Pow2(pw - p - 1) * (i * 2 + 1) - 1

\* i & (1u << k)
bitSet_NextBit(i, k) == (i \div Pow2(k + 1)) % 2 = 1

bitSet(i, k) == (i \div Pow2(k)) % 2 = 1

\* for (u32 k = 0; i & (1u << k); ++k) { assert(k <= p - 1); --bufIt;
\*   h = hashes[p - 1 - k]; expMul(*(bufIt - 1), h, *bufIt); }
\* on the buffers in use, bufs[Len(bufs)] being *(bufIt - 1) on entry.
\* p - 1 is unsigned: at p = 0 it is the largest u32 and the assertion holds.
RECURSIVE foldLoop(_, _, _, _, _, _)
foldLoop(e, bufs, i, k, p, hashes) ==
  IF ~bitSet(i, k) THEN [status |-> "ok", bufs |-> bufs]
  ELSE IF p >= 1 /\ k > p - 1 THEN [status |-> "assert", bufs |-> bufs]
  ELSE IF Len(bufs) < 2 \/ p - k < 1 THEN [status |-> "out_of_bounds", bufs |-> bufs]
  ELSE LET n == Len(bufs)
           h == hashes[p - k]
       IN foldLoop(e, SubSeq(bufs, 1, n - 2) \o <<expMul(e, bufs[n - 1], h, bufs[n], FALSE)>>,
                   i, k + 1, p, hashes)

\* computeProof up to the loop: B = load(E), A, the seed of the hash chain.
\* loaded is the list of the points load was called with, used the list
\* of the indices into points of the loop's loads.
BuildBegin ==
  /\ pc = "ready"
  /\ LET l == load(files, E, power, E)
     IN IF l.status # "ok"
        THEN /\ pc' = l.status
             /\ UNCHANGED <<oracle, bld>>
        ELSE \E d \in 0..MaxChallenge :
               /\ sha3Is(oracle, hashInput(E, NoPrefix, l.words), d)
               /\ oracle' = sampled(oracle, hashInput(E, NoPrefix, l.words), d)
               /\ bld' = [B |-> l.words, A |-> makeWords(E, 3), hash |-> d,
                          middles |-> <<>>, hashes |-> <<>>, p |-> 0, i |-> 0, bufs |-> <<>>,
                          loaded |-> <<E>>, used |-> <<>>]
               /\ pc' = "build_level"
  /\ call' = [op |-> "computeProof"]
  /\ UNCHANGED <<E, power, points, cacheIt, dirMade, files, prf, ver, proofFile, work>>

\* a level begins: bufIt = bufVect.begin(), assert(p == hashes.size())
BuildLevel ==
  /\ pc = "build_level"
  /\ bld.p < power
  /\ IF bld.p # Len(bld.hashes)
     THEN pc' = "assert" /\ bld' = bld
     ELSE pc' = "build_segment" /\ bld' = [bld EXCEPT !.i = 0, !.bufs = <<>>]
  /\ UNCHANGED <<E, power, points, cacheIt, dirMade, files, call, oracle, prf, ver, proofFile, work>>

\* one segment: load the point, writeIn(*bufIt++, w), then the folds
BuildSegment ==
  /\ pc = "build_segment"
  /\ bld.i < Pow2(bld.p)
  /\ LET ix == segIndex(power, bld.p, bld.i)
     IN IF ix + 1 > Len(points) \/ Len(bld.bufs) >= power
        THEN pc' = "out_of_bounds" /\ bld' = bld
        ELSE LET l == load(files, E, power, points[ix + 1])
                 f == foldLoop(E, bld.bufs \o <<l.words>>, bld.i, 0, bld.p, bld.hashes)
             IN IF l.status # "ok" THEN pc' = l.status /\ bld' = bld
                ELSE IF f.status # "ok" THEN pc' = f.status /\ bld' = bld
                ELSE /\ pc' = "build_segment"
                     /\ bld' = [bld EXCEPT !.i = bld.i + 1, !.bufs = f.bufs,
                                           !.loaded = Append(bld.loaded, points[ix + 1]),
                                           !.used = Append(bld.used, ix)]
  /\ UNCHANGED <<E, power, points, cacheIt, dirMade, files, call, oracle, prf, ver, proofFile, work>>

\* for (u32 p = 0; p < power; ++p)
nextLevel_Skip(p) == p + 2

nextLevel(p) == p + 1

\* a level ends: assert(bufIt == begin + 1), the middle is read back,
\* hashed behind the running digest, and its challenge is kept
BuildLevelEnd ==
  /\ pc = "build_segment"
  /\ bld.i >= Pow2(bld.p)
  /\ IF Len(bld.bufs) # 1
     THEN pc' = "assert" /\ UNCHANGED <<oracle, bld>>
     ELSE LET w == readAndCompress(bld.bufs[1])
          IN IF w = <<>>
             THEN pc' = "throw" /\ UNCHANGED <<oracle, bld>>
             ELSE \E d \in 0..MaxChallenge :
                    /\ sha3Is(oracle, hashInput(E, <<bld.hash>>, w), d)
                    /\ oracle' = sampled(oracle, hashInput(E, <<bld.hash>>, w), d)
                    /\ bld' = [bld EXCEPT !.middles = Append(bld.middles, w),
                                          !.hash = d,
                                          !.hashes = Append(bld.hashes, d),
                                          !.p = nextLevel(bld.p)]
                    /\ pc' = "build_level"
  /\ UNCHANGED <<E, power, points, cacheIt, dirMade, files, call, prf, ver, proofFile, work>>

\* return {Proof{E, knownFactors, B, middles}, hashes}
BuildReturn_ClearsCache ==
  /\ pc = "build_level"
  /\ bld.p >= power
  /\ prf' = [E |-> E, knownFactors |-> <<>>, B |-> bld.B, middles |-> bld.middles]
  /\ call' = [op |-> "computeProof", hashes |-> bld.hashes]
  /\ pc' = "built"
  /\ files' = [k \in {} |-> NoFile]
  /\ UNCHANGED <<E, power, points, cacheIt, dirMade, oracle, bld, ver, proofFile, work>>

BuildReturn ==
  /\ pc = "build_level"
  /\ bld.p >= power
  /\ prf' = [E |-> E, knownFactors |-> <<>>, B |-> bld.B, middles |-> bld.middles]
  /\ call' = [op |-> "computeProof", hashes |-> bld.hashes]
  /\ pc' = "built"
  /\ UNCHANGED <<E, power, points, cacheIt, dirMade, files, oracle, bld, ver, proofFile, work>>

\* bool doSquareB = span % 2
doSquareB_Never(span) == FALSE

doSquareB(span) == span % 2 = 1

\* bool isPrime = (B == makeWords(E, 9)), B the proof's own
isPrimeOf(p) == p.B = makeWords(p.E, 9)

\* the isPrime that the closing log line reads: the local set before the
\* loop, not a value of the folded B
loggedIsPrime_Recomputed(v, p) == v.B = makeWords(p.E, 9)

loggedIsPrime(v, p) == v.isPrime

\* what verify logs at its end
verdictOf(ok, isPrime) ==
  IF ~ok THEN "invalid" ELSE IF isPrime THEN "probable prime" ELSE "composite"

\* verify up to its loop, called with the builder's challenges or with none
VerifyBegin ==
  /\ pc = "built"
  /\ \E hs \in {<<>>, call.hashes} :
       IF ~(Len(prf.middles) > 0)
       THEN pc' = "assert" /\ UNCHANGED <<oracle, ver>>
       ELSE \E d \in 0..MaxChallenge :
              /\ sha3Is(oracle, hashInput(prf.E, NoPrefix, prf.B), d)
              /\ oracle' = sampled(oracle, hashInput(prf.E, NoPrefix, prf.B), d)
              /\ ver' = [isPrime |-> isPrimeOf(prf),
                         A |-> makeWords(prf.E, 3), B |-> prf.B, hash |-> d,
                         span |-> prf.E, i |-> 0, hashes |-> hs, h |-> <<>>, ok |-> FALSE,
                         log |-> ""]
              /\ pc' = "verify_loop"
  /\ UNCHANGED <<E, power, points, cacheIt, dirMade, files, call, bld, prf, proofFile, work>>

\* const Words& M = middles[i]
middleOf_Reversed(p, i) == p.middles[Len(p.middles) - i]

middleOf(p, i) == p.middles[i + 1]

\* one fold of verify's loop
VerifyFold ==
  /\ pc = "verify_loop"
  /\ ver.i < Len(prf.middles)
  /\ LET M == middleOf(prf, ver.i)
     IN \E h \in 0..MaxChallenge :
          /\ sha3Is(oracle, hashInput(prf.E, <<ver.hash>>, M), h)
          /\ oracle' = sampled(oracle, hashInput(prf.E, <<ver.hash>>, M), h)
          /\ IF Len(ver.hashes) > ver.i /\ h # ver.hashes[ver.i + 1]
             THEN /\ pc' = "verified"
                  /\ ver' = [ver EXCEPT !.hash = h, !.h = Append(ver.h, h), !.ok = FALSE,
                                        !.log = "hash expected"]
             ELSE /\ pc' = "verify_loop"
                  /\ ver' = [ver EXCEPT
                       !.hash = h,
                       !.h = Append(ver.h, h),
                       !.B = expMul(prf.E, M, h, ver.B, doSquareB(ver.span)),
                       !.A = expMul(prf.E, ver.A, h, M, FALSE),
                       !.i = ver.i + 1,
                       !.span = halfSpan(ver.span)]
  /\ UNCHANGED <<E, power, points, cacheIt, dirMade, files, call, bld, prf, proofFile, work>>

\* A = expExp2(A, span); ok = (A == B); the verdict is logged
VerifyEnd ==
  /\ pc = "verify_loop"
  /\ ver.i >= Len(prf.middles)
  /\ LET A == expExp2(prf.E, ver.A, ver.span)
     IN ver' = [ver EXCEPT !.A = A, !.ok = (A = ver.B),
                           !.log = verdictOf(A = ver.B, loggedIsPrime(ver, prf))]
  /\ pc' = "verified"
  /\ UNCHANGED <<E, power, points, cacheIt, dirMade, files, call, oracle, bld, prf, proofFile, work>>

NextProof ==
  \/ BuildBegin \/ BuildLevel \/ BuildSegment \/ BuildLevelEnd \/ BuildReturn
  \/ VerifyBegin \/ VerifyFold \/ VerifyEnd

SpecProof == InitProof /\ [][NextProof]_vars

\* ------------------------------------------------------------------------
\* SpecBuild: isValidTo(E) and computeProof on a cache that was damaged
\* after the PRP run wrote it
\* ------------------------------------------------------------------------
\* the files that may be damaged before the build
MaxDamaged == 1

\* a file after local corruption: same size, another first word
flipped(f) == [f EXCEPT ![1] = f[1] + 1]

\* a file a crashed writer left: created, nothing written
truncated(f) == <<>>

damagedFiles == {k \in DOMAIN files : files[k] # honestCache(E, points)[k]}

InitBuild == InitProof

\* the environment damages a stored file
DamageFile ==
  /\ pc = "ready"
  /\ call = NoCall
  /\ Cardinality(damagedFiles) < MaxDamaged
  /\ \E k \in (DOMAIN files) \ damagedFiles :
       \E f \in {flipped(files[k]), truncated(files[k])} :
          files' = putFile(files, k, f)
  /\ UNCHANGED <<E, power, pc, points, cacheIt, dirMade, call, oracle, bld, prf, ver, proofFile, work>>

\* isValidTo(E), asked before the build
CheckValid ==
  /\ pc = "ready"
  /\ call = NoCall
  /\ LET v == isValidTo(points, files, E, power, E)
     IN call' = [op |-> "isValidTo", limitK |-> E, status |-> v.status, ret |-> v.ret]
  /\ UNCHANGED <<E, power, pc, points, cacheIt, dirMade, files, oracle, bld, prf, ver, proofFile, work>>

NextBuild ==
  \/ DamageFile \/ CheckValid
  \/ BuildBegin \/ BuildLevel \/ BuildSegment \/ BuildLevelEnd \/ BuildReturn

SpecBuild == InitBuild /\ [][NextBuild]_vars

\* ------------------------------------------------------------------------
\* SpecFrame: every operation that reads the cache, on a cache that may be
\* damaged
\* ------------------------------------------------------------------------
\* the ProofSets <<E, power>> whose readers are exercised
FrameSets == {<<7, 2>>, <<13, 3>>}

InitFrame ==
  /\ \E fs \in FrameSets : E = fs[1] /\ power = fs[2]
  /\ pc = "ready"
  /\ points = ProofSetOf(E, power).pts
  /\ cacheIt = 1
  /\ dirMade = TRUE
  /\ files = honestCache(E, ProofSetOf(E, power).pts)
  /\ call = NoCall
  /\ oracle = [x \in {} |-> 0]
  /\ bld = NoBuild
  /\ prf = NoProof
  /\ ver = NoVerify
  /\ proofFile = NoFile
  /\ work = NoWork

NextFrame ==
  \/ DamageFile
  \/ CallNext \/ CallLoad \/ CallFileExists \/ CallIsValidTo \/ CallEffectivePower
  \/ BuildBegin \/ BuildLevel \/ BuildSegment \/ BuildLevelEnd \/ BuildReturn
  \/ VerifyBegin \/ VerifyFold \/ VerifyEnd

SpecFrame == InitFrame /\ [][NextFrame]_vars

\* ------------------------------------------------------------------------
\* Strings: sequences of character codes
\* ------------------------------------------------------------------------
\* 'M', '/', '-', '0', '\n', ' ', '\t'
CHAR_M == 77
CHAR_SLASH == 47
CHAR_MINUS == 45
CHAR_ZERO == 48
CHAR_NL == 10
CHAR_SPACE == 32
CHAR_TAB == 9

isDigit(ch) == ch >= CHAR_ZERO /\ ch <= CHAR_ZERO + 9

isSpace(ch) == ch \in {CHAR_SPACE, CHAR_TAB, CHAR_NL, 11, 12, 13}

\* std::to_string of an unsigned value
RECURSIVE to_string(_)
to_string(n) ==
  IF n < 10 THEN <<CHAR_ZERO + n>>
  ELSE to_string(n \div 10) \o <<CHAR_ZERO + (n % 10)>>

\* the number of leading characters of str that satisfy digit-hood
RECURSIVE digitRun(_)
digitRun(str) ==
  IF str = <<>> \/ ~isDigit(Head(str)) THEN 0 ELSE 1 + digitRun(Tail(str))

\* str without its leading zeros
RECURSIVE stripZeros(_)
stripZeros(str) ==
  IF str # <<>> /\ Head(str) = CHAR_ZERO THEN stripZeros(Tail(str)) ELSE str

\* lexicographic a > b for digit strings of one length
RECURSIVE digitsGreater(_, _)
digitsGreater(a, b) ==
  IF a = <<>> THEN FALSE
  ELSE IF Head(a) # Head(b) THEN Head(a) > Head(b)
  ELSE digitsGreater(Tail(a), Tail(b))

\* the digits of the largest u32, 4294967295
U32_MAX_DIGITS == <<52, 50, 57, 52, 57, 54, 55, 50, 57, 53>>

\* whether a digit string denotes more than the largest u32
exceedsU32(digits) ==
  LET d == stripZeros(digits)
  IN \/ Len(d) > Len(U32_MAX_DIGITS)
     \/ (Len(d) = Len(U32_MAX_DIGITS) /\ digitsGreater(d, U32_MAX_DIGITS))

RECURSIVE digitsValue(_, _)
digitsValue(digits, acc) ==
  IF digits = <<>> THEN acc
  ELSE digitsValue(Tail(digits), acc * 10 + (Head(digits) - CHAR_ZERO))

\* std::from_chars(first, last, u32 &, 10): the leading digits are consumed;
\* ptr is the count of characters consumed, ec the error code
from_chars(str) ==
  LET n == digitRun(str)
  IN IF n = 0 THEN [ptr |-> 0, ec |-> "invalid_argument", value |-> 0]
     ELSE IF exceedsU32(SubSeq(str, 1, n))
       THEN [ptr |-> n, ec |-> "result_out_of_range", value |-> 0]
     ELSE [ptr |-> n, ec |-> "ok", value |-> digitsValue(SubSeq(str, 1, n), 0)]

\* split(str, sep): the segments between separators, empty ones included;
\* an empty string has no segments and a trailing separator opens none
RECURSIVE splitFrom(_, _, _)
splitFrom(str, sep, cur) ==
  IF str = <<>> THEN (IF cur = <<>> THEN <<>> ELSE <<cur>>)
  ELSE IF Head(str) = sep THEN <<cur>> \o splitFrom(Tail(str), sep, <<>>)
  ELSE splitFrom(Tail(str), sep, Append(cur, Head(str)))

split(str, sep) == splitFrom(str, sep, <<>>)

\* ------------------------------------------------------------------------
\* proof::mersenneToString, proof::mersenneFromString
\* ------------------------------------------------------------------------
RECURSIVE joinFactors(_)
joinFactors(knownFactors) ==
  IF knownFactors = <<>> THEN <<>>
  ELSE <<CHAR_SLASH>> \o Head(knownFactors) \o joinFactors(Tail(knownFactors))

mersenneToString_NoSeparator(e, knownFactors) ==
  <<CHAR_M>> \o to_string(e) \o
  (IF knownFactors = <<>> THEN <<>> ELSE Tail(joinFactors(knownFactors)))

mersenneToString(e, knownFactors) == <<CHAR_M>> \o to_string(e) \o joinFactors(knownFactors)

\* mpz_class{str}: white space is ignored, an optional '-', then digits in
\* the base the prefix selects (0x hexadecimal, 0b binary, 0 octal, decimal
\* otherwise). status "invalid_argument" when str is not such a number,
\* else sign is -1, 0 or 1.
noSpace(str) == SelectSeq(str, LAMBDA ch : ~isSpace(ch))

\* the digits of base 16, 2, 8 and 10
digitsOfBase(base) ==
  IF base = 16 THEN 48..57 \cup 65..70 \cup 97..102
  ELSE IF base = 2 THEN {48, 49}
  ELSE IF base = 8 THEN 48..55
  ELSE 48..57

allIn(str, base) == \A j \in 1..Len(str) : str[j] \in digitsOfBase(base)

mpzDigitsOk(body) ==
  IF Len(body) >= 2 /\ body[1] = CHAR_ZERO /\ body[2] \in {88, 120}
    THEN Len(body) >= 3 /\ allIn(SubSeq(body, 3, Len(body)), 16)
  ELSE IF Len(body) >= 2 /\ body[1] = CHAR_ZERO /\ body[2] \in {66, 98}
    THEN Len(body) >= 3 /\ allIn(SubSeq(body, 3, Len(body)), 2)
  ELSE IF Len(body) >= 1 /\ body[1] = CHAR_ZERO
    THEN allIn(body, 8)
  ELSE Len(body) >= 1 /\ allIn(body, 10)

mpz_class(str) ==
  LET t    == noSpace(str)
      neg  == t # <<>> /\ t[1] = CHAR_MINUS
      body == IF neg THEN Tail(t) ELSE t
      zero == \A j \in 1..Len(body) : body[j] \in {CHAR_ZERO, 88, 120, 66, 98}
  IN IF ~mpzDigitsOk(body) THEN [status |-> "invalid_argument", sign |-> 0]
     ELSE [status |-> "ok", sign |-> IF zero THEN 0 ELSE IF neg THEN -1 ELSE 1]

\* the loop over parts[1..]: empty parts are skipped, a part that is not a
\* number or not positive throws, the others are kept as they are written
RECURSIVE factorLoop(_, _)
factorLoop(parts, kept) ==
  IF parts = <<>> THEN [status |-> "ok", knownFactors |-> kept]
  ELSE IF Head(parts) = <<>> THEN factorLoop(Tail(parts), kept)
  ELSE IF mpz_class(Head(parts)).status # "ok"
    THEN [status |-> "throw", knownFactors |-> kept]
  ELSE IF mpz_class(Head(parts)).sign <= 0
    THEN [status |-> "throw", knownFactors |-> kept]
  ELSE factorLoop(Tail(parts), Append(kept, Head(parts)))

mersenneFromString(number) ==
  IF number = <<>> \/ number[1] # CHAR_M
    THEN [status |-> "throw", E |-> 0, knownFactors |-> <<>>]
  ELSE LET parts == split(Tail(number), CHAR_SLASH)
       IN IF parts = <<>> THEN [status |-> "throw", E |-> 0, knownFactors |-> <<>>]
          ELSE LET fc == from_chars(parts[1])
               IN IF fc.ptr # Len(parts[1]) \/ fc.ec # "ok"
                    THEN [status |-> "throw", E |-> 0, knownFactors |-> <<>>]
                  ELSE LET fl == factorLoop(Tail(parts), <<>>)
                       IN [status |-> fl.status,
                           E |-> IF fl.status = "ok" THEN fc.value ELSE 0,
                           knownFactors |-> fl.knownFactors]

\* ------------------------------------------------------------------------
\* SpecNumber: mersenneToString, then mersenneFromString on its result
\* ------------------------------------------------------------------------
\* most factors in a factor list
MaxFactors == 2

\* exponents, among them 0 and the two of the source's examples
NumberExps == {0, 3, 10, 127, 216091, 18178631, 124647911}

\* factor strings: positive decimal integers, one of more than 32 bits
FactorInputs ==
  {to_string(7), to_string(100), to_string(36357263), to_string(145429049),
   to_string(841121) \o to_string(6206439)}

factorLists == UNION {[1..m -> FactorInputs] : m \in 0..MaxFactors}

InitNumber ==
  /\ E \in NumberExps
  /\ power = 0
  /\ pc = "ready"
  /\ points = <<>>
  /\ cacheIt = 0
  /\ dirMade = FALSE
  /\ files = [k \in {} |-> NoFile]
  /\ call = NoCall
  /\ oracle = [x \in {} |-> 0]
  /\ bld = NoBuild
  /\ \E F \in factorLists : prf = [E |-> E, knownFactors |-> F, B |-> <<>>, middles |-> <<>>]
  /\ ver = NoVerify
  /\ proofFile = NoFile
  /\ work = NoWork

\* proof::mersenneToString(E, knownFactors)
CallMersenneToString ==
  /\ pc = "ready"
  /\ call' = [op |-> "mersenneToString", ret |-> mersenneToString(prf.E, prf.knownFactors)]
  /\ pc' = "stringed"
  /\ UNCHANGED <<E, power, points, cacheIt, dirMade, files, oracle, bld, prf, ver, proofFile, work>>

\* proof::mersenneFromString(number, knownFactors) on that string
CallMersenneFromString ==
  /\ pc = "stringed"
  /\ LET r == mersenneFromString(call.ret)
     IN /\ call' = [op |-> "mersenneFromString", arg |-> call.ret, status |-> r.status,
                    ret |-> r.E, knownFactors |-> r.knownFactors]
        /\ pc' = (IF r.status = "ok" THEN "returned" ELSE "throw")
  /\ UNCHANGED <<E, power, points, cacheIt, dirMade, files, oracle, bld, prf, ver, proofFile, work>>

NextNumber == CallMersenneToString \/ CallMersenneFromString

SpecNumber == InitNumber /\ [][NextNumber]_vars

\* ------------------------------------------------------------------------
\* The .proof file: Proof::save, Proof::load
\* ------------------------------------------------------------------------
\* HEADER_v2 up to its %u: "PRP PROOF\nVERSION=2\nHASHSIZE=64\nPOWER="
HEADER_TO_POWER ==
  <<80, 82, 80, 32, 80, 82, 79, 79, 70, 10, 86, 69, 82, 83, 73, 79, 78, 61, 50, 10, 72, 65, 83, 72, 83, 73, 90, 69, 61, 54, 52, 10, 80, 79, 87, 69, 82, 61>>

\* HEADER_v2 between %u and %s: "\nNUMBER="
HEADER_TO_NUMBER == <<10, 78, 85, 77, 66, 69, 82, 61>>

\* (E - 1) / 8 + 1 in u32 arithmetic: E - 1 wraps to 2^32 - 1 at E = 0
nBytes(e) == IF e = 0 THEN 536870912 ELSE (e - 1) \div 8 + 1

\* fo.printf(HEADER_v2, power, number.c_str(), '\n')
printfHeader_NoNewline(pw, number) ==
  HEADER_TO_POWER \o to_string(pw) \o HEADER_TO_NUMBER \o number

printfHeader(pw, number) ==
  HEADER_TO_POWER \o to_string(pw) \o HEADER_TO_NUMBER \o number \o <<CHAR_NL>>

RECURSIVE writeMiddles(_, _)
writeMiddles(e, middles) ==
  IF middles = <<>> THEN <<>>
  ELSE bytesLE(e, Head(middles)) \o writeMiddles(e, Tail(middles))

\* the bytes Proof::save writes
saveBytes(p) ==
  printfHeader(Len(p.middles), mersenneToString(p.E, p.knownFactors))
    \o bytesLE(p.E, p.B) \o writeMiddles(p.E, p.middles)

RECURSIVE skipSpace(_)
skipSpace(inp) ==
  IF inp # <<>> /\ isSpace(Head(inp)) THEN skipSpace(Tail(inp)) ELSE inp

\* scanf on literal format text: white space in the format skips any white
\* space of the input, every other character must be the next input
\* character. The input left, or <<-1>> on a mismatch.
RECURSIVE scanLiteral(_, _)
scanLiteral(fmt, inp) ==
  IF fmt = <<>> THEN inp
  ELSE IF isSpace(Head(fmt)) THEN scanLiteral(Tail(fmt), skipSpace(inp))
  ELSE IF inp = <<>> \/ Head(inp) # Head(fmt) THEN <<-1>>
  ELSE scanLiteral(Tail(fmt), Tail(inp))

RECURSIVE nonSpaceRun(_)
nonSpaceRun(inp) ==
  IF inp = <<>> \/ isSpace(Head(inp)) THEN 0 ELSE 1 + nonSpaceRun(Tail(inp))

\* fi.scanf(HEADER_v2, &power, number, &c) on unsigned input: count is the
\* number of conversions assigned, rest the input behind the last one
scanfHeader(inp) ==
  LET none == [count |-> 0, power |-> 0, number |-> <<>>, c |-> 0, rest |-> <<>>]
      a    == scanLiteral(HEADER_TO_POWER, inp)
      b    == skipSpace(a)
      nd   == digitRun(b)
      pw   == digitsValue(SubSeq(b, 1, nd), 0)
      d    == scanLiteral(HEADER_TO_NUMBER, SubSeq(b, nd + 1, Len(b)))
      e    == skipSpace(d)
      ns   == nonSpaceRun(e)
      one  == [none EXCEPT !.count = 1, !.power = pw]
  IN IF a = <<-1>> \/ nd = 0 THEN none
     ELSE IF d = <<-1>> \/ ns = 0 THEN one
     ELSE IF ns = Len(e) THEN [one EXCEPT !.count = 2, !.number = SubSeq(e, 1, ns)]
     ELSE [count |-> 3, power |-> pw, number |-> SubSeq(e, 1, ns), c |-> e[ns + 1],
           rest |-> SubSeq(e, ns + 2, Len(e))]

\* File::readBytesLE(nBytes) on a byte sequence: the bytes packed into
\* little-endian u32 words; throws when fewer bytes are left
wordsLE(bytes) ==
  [i \in 1..((Len(bytes) - 1) \div 4 + 1) |->
     LET byteAt(j) == IF 4 * (i - 1) + j <= Len(bytes) THEN bytes[4 * (i - 1) + j] ELSE 0
     IN byteAt(1) + 256 * byteAt(2) + 65536 * byteAt(3) + 16777216 * byteAt(4)]

\* for (i < power) middles.push_back(fi.readBytesLE(nBytes))
RECURSIVE readMiddles(_, _, _)
readMiddles(inp, n, count) ==
  IF count = 0 THEN [status |-> "ok", middles |-> <<>>]
  ELSE IF Len(inp) < n THEN [status |-> "throw", middles |-> <<>>]
  ELSE LET r == readMiddles(SubSeq(inp, n + 1, Len(inp)), n, count - 1)
       IN [status |-> r.status,
           middles |-> IF r.status = "ok" THEN <<wordsLE(SubSeq(inp, 1, n))>> \o r.middles ELSE <<>>]

\* Proof::load on the bytes of a file
loadProof(inp) ==
  LET h == scanfHeader(inp)
      failed(why) == [status |-> "throw", what |-> why, proof |-> NoProof]
  IN IF inp = NoFile THEN failed("open")
     ELSE IF h.count # 3 \/ h.c # CHAR_NL THEN failed("Invalid proof header")
     ELSE LET m == mersenneFromString(h.number)
          IN IF m.status # "ok" THEN failed("Invalid proof header")
             ELSE LET n == nBytes(m.E)
                      r == readMiddles(SubSeq(h.rest, n + 1, Len(h.rest)), n, h.power)
                  IN IF Len(h.rest) < n \/ r.status # "ok" THEN failed("read")
                     ELSE [status |-> "ok", what |-> "",
                           proof |-> [E |-> m.E, knownFactors |-> m.knownFactors,
                                      B |-> wordsLE(SubSeq(h.rest, 1, n)), middles |-> r.middles]]

\* ------------------------------------------------------------------------
\* SpecFile: a proof is saved, or a file comes from elsewhere; the file is
\* loaded and verify begins on the proof loaded
\* ------------------------------------------------------------------------
\* most middles of a proof that is saved
MaxMiddles == 2

\* exponents of the saved proofs: residues of one byte, two bytes and two
\* words
FileExps == {3, 13, 37}

\* canonical residues of exponent e: below 2^e, in nWords(e) words
fileResidues(e) ==
  {makeWords(e, 3), makeWords(e, 5)} \cup
  (IF e > 8 THEN {makeWords(e, 256 + 9)} ELSE {}) \cup
  (IF e > 32 THEN {[i \in 1..nWords(e) |-> i + 16]} ELSE {})

fileFactorLists == UNION {[1..m -> {to_string(7), to_string(36357263)}] : m \in 0..MaxFactors}

\* the POWER and NUMBER fields and the count of residues of the files that
\* other programs wrote
ForeignPowers == {0, 1, 12, 13}

ForeignNumbers ==
  {mersenneToString(7, <<>>),
   mersenneToString(7, <<to_string(127)>>),
   mersenneToString(7, <<to_string(1)>>),
   mersenneToString(7, <<to_string(0)>>),
   mersenneToString(7, <<<<>>, to_string(127)>>),
   mersenneToString(7, <<<<CHAR_MINUS>> \o to_string(127)>>),
   to_string(7),
   <<CHAR_M>>}

InitFile ==
  /\ E \in FileExps
  /\ power \in 1..MaxMiddles
  /\ pc = "have_proof"
  /\ points = <<>>
  /\ cacheIt = 0
  /\ dirMade = FALSE
  /\ files = [k \in {} |-> NoFile]
  /\ call = NoCall
  /\ oracle = [x \in {} |-> 0]
  /\ bld = NoBuild
  /\ \E F \in fileFactorLists, b \in fileResidues(E), ms \in [1..power -> fileResidues(E)] :
       prf = [E |-> E, knownFactors |-> F, B |-> b, middles |-> ms]
  /\ ver = NoVerify
  /\ proofFile = NoFile
  /\ work = NoWork

\* proof.save(proofFile)
ProofSave ==
  /\ pc = "have_proof"
  /\ proofFile' = saveBytes(prf)
  /\ call' = [op |-> "Proof::save", proof |-> prf]
  /\ pc' = "file"
  /\ UNCHANGED <<E, power, points, cacheIt, dirMade, files, oracle, bld, prf, ver, work>>

\* the proof at hand is dropped and a file another program wrote is taken:
\* a header, then residues of one byte
ForeignFile ==
  /\ pc = "have_proof"
  /\ \E pw \in ForeignPowers, number \in ForeignNumbers :
       \E n \in {pw, pw + 1} :
         proofFile' = printfHeader(pw, number) \o [j \in 1..n |-> 9]
  /\ call' = [op |-> "foreign", proof |-> NoProof]
  /\ prf' = NoProof
  /\ pc' = "file"
  /\ UNCHANGED <<E, power, points, cacheIt, dirMade, files, oracle, bld, ver, work>>

\* Proof::load(path)
ProofLoad ==
  /\ pc = "file"
  /\ LET l == loadProof(proofFile)
     IN /\ pc' = (IF l.status = "ok" THEN "built" ELSE "throw")
        /\ prf' = l.proof
        /\ call' = [op |-> "Proof::load", status |-> l.status, what |-> l.what,
                    from |-> call.op, saved |-> call.proof, hashes |-> <<>>]
  /\ UNCHANGED <<E, power, points, cacheIt, dirMade, files, oracle, bld, ver, proofFile, work>>

NextFile == ProofSave \/ ForeignFile \/ ProofLoad \/ VerifyBegin

SpecFile == InitFile /\ [][NextFile]_vars

\* ------------------------------------------------------------------------
\* ProofSet::bestPower
\* ------------------------------------------------------------------------
\* the exponent of power 10: 60e6
WAVEFRONT == 60000000

\* floor(log4(x / t)) for x >= t: the number of times x divides by 4 and
\* stays at least t
RECURSIVE log4Floor(_, _)
log4Floor(x, t) == IF x \div 4 >= t THEN 1 + log4Floor(x \div 4, t) ELSE 0

\* -floor(log4(e / 60e6)) for 0 < e < 60e6: the number of times e is
\* multiplied by 4 to reach 60e6
RECURSIVE log4Below(_)
log4Below(e) == IF e * 4 >= WAVEFRONT THEN 1 ELSE 1 + log4Below(e * 4)

\* int power = 10 + floor(log2(E / 60e6) / 2) for the u32 exponent
\* E = 4 * e4 + r; an exponent of 60e6 or more is compared by its quarter,
\* which keeps every number below 2^31
floorLog4(e4, r) ==
  IF e4 >= WAVEFRONT \div 4 THEN log4Floor(e4, WAVEFRONT \div 4)
  ELSE 0 - log4Below(4 * e4 + r)

\* ProofSet::bestPower(E): assert(E > 0), the power, assert(power >= 2)
bestPower(e4, r) ==
  IF e4 = 0 /\ r = 0 THEN [status |-> "assert", ret |-> 0]
  ELSE LET pw == 10 + floorLog4(e4, r)
       IN IF pw >= 2 THEN [status |-> "ok", ret |-> pw]
          ELSE [status |-> "assert", ret |-> pw]

\* the quarters of the exponents bestPower is called with: around every
\* step of the power, and the ends of the u32 range
QuarterInputs ==
  {0, 1, 228, 229, 3662, 234375, 3749999, 3750000, 14999999, 15000000,
   59999999, 60000000, 239999999, 240000000, 536870911, 959999999,
   960000000, 1073741823}

InitPower ==
  /\ E = 0
  /\ power = 0
  /\ pc = "ready"
  /\ points = <<>>
  /\ cacheIt = 0
  /\ dirMade = FALSE
  /\ files = [k \in {} |-> NoFile]
  /\ \E q \in QuarterInputs, r \in 0..3 : call = [op |-> "exponent", e4 |-> q, r |-> r]
  /\ oracle = [x \in {} |-> 0]
  /\ bld = NoBuild
  /\ prf = NoProof
  /\ ver = NoVerify
  /\ proofFile = NoFile
  /\ work = NoWork

\* bestPower(E), and the power check of the constructor on its result
CallBestPower ==
  /\ pc = "ready"
  /\ LET b == bestPower(call.e4, call.r)
     IN /\ pc' = (IF b.status = "ok" THEN "returned" ELSE "assert")
        /\ call' = [op |-> "bestPower", e4 |-> call.e4, r |-> call.r,
                    status |-> b.status, ret |-> b.ret,
                    accepted |-> b.status = "ok" /\ ~badPower(b.ret)]
  /\ UNCHANGED <<E, power, points, cacheIt, dirMade, files, oracle, bld, prf, ver, proofFile, work>>

NextPower == CallBestPower

SpecPower == InitPower /\ [][NextPower]_vars

\* ------------------------------------------------------------------------
\* Worktodo: bestTask and getWork
\* ------------------------------------------------------------------------
\* worker instances that share the global worktodo.txt
MaxInst == 3

Inst == 1..MaxInst

NoTask == [kind |-> "none", exponent |-> 0]

\* the lines of the worktodo files, each one a valid task
WorkLines ==
  {[kind |-> "PRP", exponent |-> 2203], [kind |-> "PRP", exponent |-> 4253],
   [kind |-> "CERT", exponent |-> 11213, squarings |-> 200]}

\* the bytes of a line: its keyword, '=', the exponent, the newline
lineSize(line) == Len(line.kind) + 1 + Len(to_string(line.exponent)) + 1

\* fileSize(path): the bytes of the lines
RECURSIVE fileSizeOf(_)
fileSizeOf(lines) ==
  IF lines = <<>> THEN 0 ELSE lineSize(Head(lines)) + fileSizeOf(Tail(lines))

\* parse(line): the task of a PRP or LL line whose exponent is above 1000
\* and of a CERT line that also has more than 100 squarings, nothing for
\* any other line
parse(line) ==
  IF \/ line.kind \in {"PRP", "LL"} /\ line.exponent > 1000
     \/ line.kind = "CERT" /\ line.exponent > 1000 /\ line.squarings > 100
  THEN line ELSE NoTask

\* the test of bestTask that makes task the best so far
better_OrEqual(best, task) ==
  \/ best = NoTask
  \/ (best.kind # "CERT" /\ task.kind = "CERT")
  \/ ((best.kind # "CERT" \/ task.kind = "CERT") /\ task.exponent <= best.exponent)

better(best, task) ==
  \/ best = NoTask
  \/ (best.kind # "CERT" /\ task.kind = "CERT")
  \/ ((best.kind # "CERT" \/ task.kind = "CERT") /\ task.exponent < best.exponent)

\* the loop of bestTask over the lines of a file
RECURSIVE bestLoop(_, _)
bestLoop(lines, best) ==
  IF lines = <<>> THEN best
  ELSE LET task == parse(Head(lines))
       IN bestLoop(Tail(lines),
            IF task # NoTask /\ better(best, task) THEN task ELSE best)

bestTask(lines) == bestLoop(lines, NoTask)

\* the lines without the first one equal to line
RECURSIVE withoutLine(_, _)
withoutLine(lines, line) ==
  IF lines = <<>> THEN <<>>
  ELSE IF Head(lines) = line THEN Tail(lines)
  ELSE <<Head(lines)>> \o withoutLine(Tail(lines), line)

hasLine(lines, line) == \E j \in 1..Len(lines) : lines[j] = line

\* the contents the global worktodo starts with
GlobalInputs ==
  {<<l>> : l \in WorkLines} \cup
  ({<<l, m>> : l \in WorkLines, m \in WorkLines} \ {<<l, l>> : l \in WorkLines})

\* the contents a local worktodo starts with
LocalInputs(i) == {<<>>, <<[kind |-> "PRP", exponent |-> 9689 + 2 * i]>>}

idleProc == [pc |-> "idle", retry |-> 0, initialSize |-> 0, line |-> NoTask,
             tmp |-> <<>>, ret |-> NoTask, renamed |-> FALSE]

InitWork ==
  /\ E = 0
  /\ power = 0
  /\ pc = "work"
  /\ points = <<>>
  /\ cacheIt = 0
  /\ dirMade = FALSE
  /\ files = [k \in {} |-> NoFile]
  /\ call = NoCall
  /\ oracle = [x \in {} |-> 0]
  /\ bld = NoBuild
  /\ prf = NoProof
  /\ ver = NoVerify
  /\ proofFile = NoFile
  /\ \E g \in GlobalInputs, loc \in {f \in [Inst -> UNION {LocalInputs(i) : i \in Inst}] :
                                      \A i \in Inst : f[i] \in LocalInputs(i)} :
       work = [initial |-> g, global |-> g,
               initialLocal |-> loc, local |-> loc,
               proc |-> [i \in Inst |-> idleProc]]

\* the step of instance i: work with proc[i] and the files replaced
stepWork(i, proc, global, local) ==
  /\ work' = [work EXCEPT !.proc[i] = proc, !.global = global, !.local[i] = local]
  /\ UNCHANGED <<E, power, pc, points, cacheIt, dirMade, files, call, oracle, bld, prf, ver, proofFile>>

\* getWork: a task of the local worktodo is returned as it is
GetWorkLocal(i) ==
  LET me == work.proc[i]
      task == bestTask(work.local[i])
  IN /\ me.pc = "idle"
     /\ stepWork(i, IF task # NoTask THEN [me EXCEPT !.pc = "done", !.ret = task]
                    ELSE [me EXCEPT !.pc = "size"],
                 work.global, work.local[i])

\* 1. read the file-size of the global worktodo
GetWorkSize(i) ==
  LET me == work.proc[i]
      size == fileSizeOf(work.global)
  IN /\ me.pc = "size"
     /\ stepWork(i, IF size = 0 THEN [me EXCEPT !.pc = "done"]
                    ELSE [me EXCEPT !.pc = "best", !.initialSize = size],
                 work.global, work.local[i])

\* 2. read one task from the global worktodo
GetWorkBest(i) ==
  LET me == work.proc[i]
      task == bestTask(work.global)
  IN /\ me.pc = "best"
     /\ stepWork(i, IF task = NoTask THEN [me EXCEPT !.pc = "done"]
                    ELSE [me EXCEPT !.pc = "append", !.line = task],
                 work.global, work.local[i])

\* 3. append the task to the local worktodo
GetWorkAppend(i) ==
  LET me == work.proc[i]
  IN /\ me.pc = "append"
     /\ stepWork(i, [me EXCEPT !.pc = "delete_scan"], work.global,
                 Append(work.local[i], me.line))

\* 4. write the global worktodo without the task to a temporary file;
\* deleteLine fails when the line is not there
DeleteScan(i) ==
  LET me == work.proc[i]
  IN /\ me.pc = "delete_scan"
     /\ stepWork(i, IF hasLine(work.global, me.line)
                    THEN [me EXCEPT !.pc = "delete_check", !.tmp = withoutLine(work.global, me.line)]
                    ELSE [me EXCEPT !.pc = "undo"],
                 work.global, work.local[i])

\* 5. compare the size of the global worktodo with its initial size
DeleteCheck(i) ==
  LET me == work.proc[i]
  IN /\ me.pc = "delete_check"
     /\ stepWork(i, IF fileSizeOf(work.global) = me.initialSize
                    THEN [me EXCEPT !.pc = "delete_rename"]
                    ELSE [me EXCEPT !.pc = "undo"],
                 work.global, work.local[i])

\* 6a. rename the temporary file to global worktodo; getWork returns the task
DeleteRename(i) ==
  LET me == work.proc[i]
  IN /\ me.pc = "delete_rename"
     /\ stepWork(i, [me EXCEPT !.pc = "done", !.ret = me.line, !.renamed = TRUE],
                 me.tmp, work.local[i])

\* deleteLine(localWork, workLine): the local worktodo without the task
undoLocal_Keep(lines, line) == lines

undoLocal(lines, line) == withoutLine(lines, line)

\* 7. remove the task from the local worktodo, 8. start again; the second
\* failure ends in assert(false)
GetWorkUndo(i) ==
  LET me == work.proc[i]
  IN /\ me.pc = "undo"
     /\ stepWork(i, IF ~hasLine(work.local[i], me.line) THEN [me EXCEPT !.pc = "assert"]
                    ELSE IF me.retry + 1 < 2 THEN [me EXCEPT !.pc = "size", !.retry = me.retry + 1]
                    ELSE [me EXCEPT !.pc = "assert", !.retry = me.retry + 1],
                 work.global, undoLocal(work.local[i], me.line))

NextWork ==
  \E i \in Inst :
    \/ GetWorkLocal(i) \/ GetWorkSize(i) \/ GetWorkBest(i) \/ GetWorkAppend(i)
    \/ DeleteScan(i) \/ DeleteCheck(i) \/ DeleteRename(i) \/ GetWorkUndo(i)

SpecWork == InitWork /\ [][NextWork]_vars

\* ------------------------------------------------------------------------
\* SpecBest: bestTask on one worktodo file
\* ------------------------------------------------------------------------
\* the lines of the file
MaxLines == 3

\* lines of every kind: two PRP lines of one exponent, an LL line below
\* them, two CERT lines of one exponent, a CERT line of too few squarings,
\* a line whose exponent is too small and a line that is no assignment
BestLines ==
  {[kind |-> "PRP", exponent |-> 2203, aid |-> 1],
   [kind |-> "PRP", exponent |-> 2203, aid |-> 2],
   [kind |-> "LL", exponent |-> 1279, aid |-> 3],
   [kind |-> "CERT", exponent |-> 4253, squarings |-> 200, aid |-> 4],
   [kind |-> "CERT", exponent |-> 4253, squarings |-> 200, aid |-> 5],
   [kind |-> "CERT", exponent |-> 1279, squarings |-> 100, aid |-> 6],
   [kind |-> "PRP", exponent |-> 607, aid |-> 7],
   [kind |-> "#", exponent |-> 0, aid |-> 8]}

InitBest ==
  /\ E = 0
  /\ power = 0
  /\ pc = "ready"
  /\ points = <<>>
  /\ cacheIt = 0
  /\ dirMade = FALSE
  /\ files = [k \in {} |-> NoFile]
  /\ \E n \in 0..MaxLines : \E f \in [1..n -> BestLines] : call = [op |-> "file", lines |-> f]
  /\ oracle = [x \in {} |-> 0]
  /\ bld = NoBuild
  /\ prf = NoProof
  /\ ver = NoVerify
  /\ proofFile = NoFile
  /\ work = NoWork

\* bestTask(fileName)
CallBestTask ==
  /\ pc = "ready"
  /\ pc' = "returned"
  /\ call' = [op |-> "bestTask", lines |-> call.lines, ret |-> bestTask(call.lines)]
  /\ UNCHANGED <<E, power, points, cacheIt, dirMade, files, oracle, bld, prf, ver, proofFile, work>>

NextBest == CallBestTask

SpecBest == InitBest /\ [][NextBest]_vars

\* ------------------------------------------------------------------------
\* SpecTask: Worktodo::getTask and Worktodo::deleteTask, called in sequence
\* ------------------------------------------------------------------------
\* the getTask calls of one behaviour
MaxCalls == 4

\* instance 0 and one more instance
TaskInst == {0, 1}

\* the command-line tasks of Args: -prp, -ll, -verify
ArgsInputs ==
  [prpExp : {0, 2203}, llExp : {0, 4423}, verifyPath : {"", "p.proof"},
   masterDir : {"", "master"}]

\* the part of getTask before getWork: the command-line task it returns
\* and the arguments it leaves; NoTask when it goes on to getWork
getTask_AnyInstance(args, instance) ==
  IF args.prpExp # 0
    THEN [args |-> [args EXCEPT !.prpExp = 0],
          ret |-> [kind |-> "PRP", exponent |-> args.prpExp]]
  ELSE IF args.llExp # 0
    THEN [args |-> [args EXCEPT !.llExp = 0],
          ret |-> [kind |-> "LL", exponent |-> args.llExp]]
  ELSE IF args.verifyPath # ""
    THEN [args |-> [args EXCEPT !.verifyPath = ""],
          ret |-> [kind |-> "VERIFY", exponent |-> 0, verifyPath |-> args.verifyPath]]
  ELSE [args |-> args, ret |-> NoTask]

getTask(args, instance) ==
  IF instance = 0 /\ args.prpExp # 0
    THEN [args |-> [args EXCEPT !.prpExp = 0],
          ret |-> [kind |-> "PRP", exponent |-> args.prpExp]]
  ELSE IF instance = 0 /\ args.llExp # 0
    THEN [args |-> [args EXCEPT !.llExp = 0],
          ret |-> [kind |-> "LL", exponent |-> args.llExp]]
  ELSE IF instance = 0 /\ args.verifyPath # ""
    THEN [args |-> [args EXCEPT !.verifyPath = ""],
          ret |-> [kind |-> "VERIFY", exponent |-> 0, verifyPath |-> args.verifyPath]]
  ELSE [args |-> args, ret |-> NoTask]

\* getWork run alone: the best task of the local file, or with a master
\* directory the best task of the global file, moved to the local file
getWork(args, global, local) ==
  IF bestTask(local) # NoTask
    THEN [ret |-> bestTask(local), global |-> global, local |-> local]
  ELSE IF args.masterDir = "" \/ bestTask(global) = NoTask
    THEN [ret |-> NoTask, global |-> global, local |-> local]
  ELSE [ret |-> bestTask(global),
        global |-> withoutLine(global, bestTask(global)),
        local |-> Append(local, bestTask(global))]

\* a returned task: line is whether Task::line holds a worktodo line
NoHeld == [task |-> NoTask, line |-> FALSE]

InitTask ==
  /\ E = 0
  /\ power = 0
  /\ pc = "task"
  /\ points = <<>>
  /\ cacheIt = 0
  /\ dirMade = FALSE
  /\ files = [k \in {} |-> NoFile]
  /\ call = NoCall
  /\ oracle = [x \in {} |-> 0]
  /\ bld = NoBuild
  /\ prf = NoProof
  /\ ver = NoVerify
  /\ proofFile = NoFile
  /\ \E a \in ArgsInputs, g \in GlobalInputs \cup {<<>>} :
     \E l0 \in LocalInputs(0), l1 \in LocalInputs(1) :
       work = [initialArgs |-> a, args |-> a, global |-> g,
               local |-> [i \in TaskInst |-> IF i = 0 THEN l0 ELSE l1],
               held |-> [i \in TaskInst |-> NoHeld],
               log |-> <<>>]

\* Worktodo::getTask(args, instance)
CallGetTask(i) ==
  /\ pc = "task"
  /\ Len(work.log) < MaxCalls
  /\ LET cmd == getTask(work.args, i)
         got == getWork(work.args, work.global, work.local[i])
         out == IF cmd.ret # NoTask THEN [task |-> cmd.ret, line |-> FALSE]
                ELSE [task |-> got.ret, line |-> got.ret # NoTask]
     IN work' = [work EXCEPT
                   !.args = cmd.args,
                   !.global = IF cmd.ret # NoTask THEN @ ELSE got.global,
                   !.local[i] = IF cmd.ret # NoTask THEN @ ELSE got.local,
                   !.held[i] = out,
                   !.log = Append(@, [instance |-> i, task |-> out.task, line |-> out.line])]
  /\ UNCHANGED <<E, power, pc, points, cacheIt, dirMade, files, call, oracle, bld, prf, ver, proofFile>>

\* Worktodo::deleteTask(task, instance), for the task the instance holds
CallDeleteTask(i) ==
  /\ pc = "task"
  /\ work.held[i] # NoHeld
  /\ work' = [work EXCEPT
                !.local[i] = IF work.held[i].line THEN withoutLine(@, work.held[i].task) ELSE @,
                !.held[i] = NoHeld]
  /\ UNCHANGED <<E, power, pc, points, cacheIt, dirMade, files, call, oracle, bld, prf, ver, proofFile>>

NextTask ==
  \/ \E i \in TaskInst : CallGetTask(i)
  \/ \E i \in TaskInst : CallDeleteTask(i)

SpecTask == InitTask /\ [][NextTask]_vars

\* ------------------------------------------------------------------------
\* SpecTrig: TrigBufCache::smallTrig, smallTrigCombo and middleTrig called
\* from several threads
\* ------------------------------------------------------------------------
\* the buffers ever generated
MaxBufs == 3

\* the calling threads
Threads == {1, 2}

\* the calls: smallTrig(W, nW), smallTrigCombo(width, middle, W, nW) and
\* middleTrig(SMALL_H, MIDDLE, width), SMALL_H carried as W
TrigCalls ==
  {[fn |-> "smallTrig", width |-> 0, middle |-> 0, W |-> 256, nW |-> 8],
   [fn |-> "smallTrig", width |-> 0, middle |-> 0, W |-> 512, nW |-> 8],
   [fn |-> "smallTrigCombo", width |-> 512, middle |-> 4, W |-> 256, nW |-> 4],
   [fn |-> "middleTrig", width |-> 512, middle |-> 4, W |-> 256, nW |-> 0]}

\* the builds: PREFER_DP_TO_MEM is 2 or it is not
Builds == {1, 2}

\* auto& m: the map a call works on
mapOf(c) == IF c.fn = "middleTrig" THEN "middle" ELSE "small"

\* key: the key of a call in its map
keyOf(build, c) ==
  IF c.fn = "smallTrig" THEN <<c.W, c.nW>>
  ELSE IF c.fn = "smallTrigCombo"
    THEN (IF build = 2 THEN <<c.W, c.nW>> ELSE <<c.W, c.nW + c.middle>>)
  ELSE <<c.W, c.middle, c.width>>

\* a map and a key in it
slotOf(build, c) == <<mapOf(c), keyOf(build, c)>>

Slots == {slotOf(b, c) : b \in Builds, c \in TrigCalls}

\* lock_guard lock{mut}: a thread enters when no thread holds the mutex
canLock_Always(mut, t) == TRUE

canLock(mut, t) == mut = 0

idleTrig == [pc |-> "idle", c |-> NoCall, p |-> 0]

\* a buffer is referenced: a thread holds a TrigPtr to it, a call has it in
\* p, or one of the two caches of strong pointers keeps it
isLive(w, id) ==
  \/ \E t \in Threads : id \in w.held[t] \/ w.proc[t].p = id
  \/ id \in w.cache["small"] \cup w.cache["middle"]

InitTrig ==
  /\ E = 0
  /\ power = 0
  /\ pc = "trig"
  /\ points = <<>>
  /\ cacheIt = 0
  /\ dirMade = FALSE
  /\ files = [k \in {} |-> NoFile]
  /\ call = NoCall
  /\ oracle = [x \in {} |-> 0]
  /\ bld = NoBuild
  /\ prf = NoProof
  /\ ver = NoVerify
  /\ proofFile = NoFile
  /\ \E b \in Builds :
       work = [build |-> b, mut |-> 0,
               m |-> [s \in Slots |-> 0],
               bufs |-> <<>>,
               cache |-> [n \in {"small", "middle"} |-> {}],
               held |-> [t \in Threads |-> {}],
               proc |-> [t \in Threads |-> idleTrig]]

\* a thread calls one of the three functions: lock_guard lock{mut};
\* it = m.find(key); p = it->second.lock()
TrigEnter(t, c) ==
  /\ pc = "trig"
  /\ work.proc[t].pc = "idle"
  /\ canLock(work.mut, t)
  /\ LET it == work.m[slotOf(work.build, c)]
     IN work' = [work EXCEPT
                  !.mut = t,
                  !.proc[t] = IF it # 0 /\ isLive(work, it)
                              THEN [pc |-> "return", c |-> c, p |-> it]
                              ELSE [pc |-> "make", c |-> c, p |-> 0]]
  /\ UNCHANGED <<E, power, pc, points, cacheIt, dirMade, files, call, oracle, bld, prf, ver, proofFile>>

\* p = make_shared<TrigBuf>(context, gen...(...)); m[key] = p;
\* smallCache.add(p) or middleCache.add(p): the cache keeps p and may let
\* go of pointers it kept before
TrigMake(t) ==
  /\ pc = "trig"
  /\ work.proc[t].pc = "make"
  /\ Len(work.bufs) < MaxBufs
  /\ \E gone \in SUBSET work.cache[mapOf(work.proc[t].c)] :
       work' = [work EXCEPT
                  !.bufs = Append(@, [slot |-> slotOf(work.build, work.proc[t].c),
                                      gen |-> work.proc[t].c]),
                  !.m[slotOf(work.build, work.proc[t].c)] = Len(work.bufs) + 1,
                  !.cache[mapOf(work.proc[t].c)] = (@ \ gone) \cup {Len(work.bufs) + 1},
                  !.proc[t].p = Len(work.bufs) + 1,
                  !.proc[t].pc = "return"]
  /\ UNCHANGED <<E, power, pc, points, cacheIt, dirMade, files, call, oracle, bld, prf, ver, proofFile>>

\* return p; the mutex is released
TrigReturn(t) ==
  /\ pc = "trig"
  /\ work.proc[t].pc = "return"
  /\ work' = [work EXCEPT !.held[t] = @ \cup {work.proc[t].p},
                          !.mut = IF @ = t THEN 0 ELSE @,
                          !.proc[t] = idleTrig]
  /\ UNCHANGED <<E, power, pc, points, cacheIt, dirMade, files, call, oracle, bld, prf, ver, proofFile>>

\* a thread lets go of a TrigPtr it was returned
TrigDrop(t, id) ==
  /\ pc = "trig"
  /\ id \in work.held[t]
  /\ work' = [work EXCEPT !.held[t] = @ \ {id}]
  /\ UNCHANGED <<E, power, pc, points, cacheIt, dirMade, files, call, oracle, bld, prf, ver, proofFile>>

NextTrig ==
  \/ \E t \in Threads, c \in TrigCalls : TrigEnter(t, c)
  \/ \E t \in Threads : TrigMake(t)
  \/ \E t \in Threads : TrigReturn(t)
  \/ \E t \in Threads, id \in 1..MaxBufs : TrigDrop(t, id)

SpecTrig == InitTrig /\ [][NextTrig]_vars


\* ------------------------------------------------------------------------
\* Claims on the constructor and next (SpecSet)
\* ------------------------------------------------------------------------
sortedAscending(q) == \A i, j \in 1..Len(q) : i < j => q[i] <= q[j]

\* C2: for every odd prime E and every P in [1,12] the constructor finishes
\* without a failed assertion and its point list (guard excluded) is sorted
\* ascending, has 2^P elements, starts above 0, ends with E, and holds only
\* elements that satisfy isInPoints.
C2_PointList ==
  (pc # "new" /\ power \in 1..MAX_POWER) =>
     /\ pc = "ready"
     /\ sortedAscending(pointList)
     /\ Len(pointList) = Pow2(power)
     /\ pointList[1] > 0
     /\ pointList[Len(pointList)] = E
     /\ \A j \in 1..Len(pointList) : isInPoints(E, power, pointList[j])

\* C3: every next(k) returns the smallest proof point strictly greater than
\* k, the guard when k >= E, wherever earlier calls left the cached iterator.
C3_NextSmallestGreater ==
  call.op = "next" =>
     /\ call.ret > call.arg
     /\ call.ret \in pointSet \cup {GUARD}
     /\ \A p \in pointSet : p > call.arg => call.ret <= p
     /\ (call.arg >= E => call.ret = GUARD)

\* C3 witness: a call that rewound, the iterator moved back from where an
\* earlier call had left it
C3_Rewound ==
  call.op = "next" /\ call.from > 1 /\ cacheIt < call.from /\ call.ret < E

\* C14: a ProofSet constructed with P outside [1,12] fails with the
\* bad-power error before any point is computed and before the cache
\* directory is created; the filesystem is unchanged.
C14_BadPowerThrowsFirst ==
  (pc # "new" /\ power \notin 1..MAX_POWER) =>
     /\ pc = "throw"
     /\ points = <<>>
     /\ ~dirMade
     /\ DOMAIN files = {}

\* C14 witness: a power next to the range, 0 or 13, was refused
C14_Refused ==
  pc = "throw" /\ call.op = "ctor" /\ power \in {0, MAX_POWER + 1}

\* ------------------------------------------------------------------------
\* Claims on the cache (Spec)
\* ------------------------------------------------------------------------
\* C4: after save(k, R) returns, load(k) returns R and fileExists(k) holds;
\* save itself never stops on its closing assertion.
C4_SaveThenLoad ==
  call.op = "saved" =>
     /\ pc = "ready"
     /\ load(files, E, power, call.k) = [status |-> "ok", words |-> call.words]
     /\ fileExists(files, E, call.k)

\* C4 witness: a save that replaced an earlier residue of the same point
\* has returned
C4_Saved ==
  /\ pc = "ready" /\ call.op = "saved"
  /\ call.words = makeWords(E, 2)
  /\ Cardinality(DOMAIN files) >= 2

inSave(p) == p \in {"save_opened", "save_words", "save_written"}

\* C5: every step of a save leaves the file at the final path as it was or
\* puts the complete new file (residue and checksum) there; no other content
\* is ever visible at the final path.
C5_AtomicSave ==
  [][inSave(pc') =>
       \/ fileAt(files', savePath(call'.k)) = fileAt(files, savePath(call'.k))
       \/ fileAt(files', savePath(call'.k)) = writeChecked(call'.words)]_vars

\* the largest proof point <= limitK
pStar(limitK) == Max({p \in pointSet : p <= limitK})

\* C6: isValidTo(limit) is true exactly when load(p*) succeeds, p* the
\* largest proof point <= limit, and every smaller proof point passes
\* fileExists.
C6_IsValidTo ==
  (call.op = "isValidTo" /\ \E p \in pointSet : p <= call.limitK) =>
     /\ call.status = "ok"
     /\ call.ret = (/\ load(files, E, power, pStar(call.limitK)).status = "ok"
                    /\ \A p \in pointSet : p < pStar(call.limitK) => fileExists(files, E, p))

\* C6 witness: isValidTo(E) answered true on a cache of at least three
\* distinct points
C6_ValidChain ==
  /\ call.op = "isValidTo" /\ call.ret /\ call.limitK = E
  /\ Cardinality(pointSet) >= 3

\* a ProofSet of power p can be built and its isValidTo(currentK) is true
validAt(p, currentK) ==
  /\ ctor(E, p).status = "ok"
  /\ isValidTo(ctor(E, p).pts, files, E, p, currentK) = [status |-> "ok", ret |-> TRUE]

\* C7: effectivePower(E, factors, P, currentK) returns the largest p' in
\* [1, P] whose ProofSet satisfies isValidTo(currentK), 0 when there is
\* none, and never more than P.
C7_EffectivePower ==
  call.op = "effectivePower" =>
     /\ call.status = "ok"
     /\ call.ret = Max({0} \cup {p \in 1..call.pw : validAt(p, call.currentK)})
     /\ call.ret <= call.pw

hasFile(fs, k) == k \in DOMAIN fs

filesArePrefix(fs) ==
  \A p, q \in pointSet : (p < q /\ hasFile(fs, q)) => hasFile(fs, p)

\* C9 as stated: after any sequence of saves at proof points, no proof point
\* has a file while a smaller one lacks it.
C9_FilesArePrefix == filesArePrefix(files)

\* C9 amended: save does not order its calls; the files stay a prefix of the
\* point list through every save that begins when all smaller proof points
\* already have a file.
C9_OrderedSavesKeepPrefix ==
  [][(/\ filesArePrefix(files)
      /\ (pc = "ready" /\ pc' = "save_opened") =>
            \A p \in pointSet : p < call'.k => hasFile(files, p))
     => filesArePrefix(files')]_vars

\* C9 witness: two points saved in ascending order, a third still missing
C9_TwoInOrder ==
  /\ pc = "ready" /\ call.op = "saved"
  /\ filesArePrefix(files)
  /\ Cardinality(DOMAIN files) = 2
  /\ Cardinality(pointSet) >= 3
  /\ \A k \in DOMAIN files : fileExists(files, E, k)

\* C19: once save(k, R) has succeeded, no later step of a cache operation
\* changes what load(k) returns, a later save(k, R') included.
C19_ResidueImmutable ==
  [][\A k \in pointSet :
       load(files, E, power, k).status = "ok" =>
          load(files', E, power, k) = load(files, E, power, k)]_vars

\* ------------------------------------------------------------------------
\* Claims on resume (SpecResume)
\* ------------------------------------------------------------------------
\* the proof points of power p as isInPoints characterises them
pointsOfPower(p) == {k \in 1..E : isInPoints(E, p, k)}

missingPoints == pointSet \ DOMAIN files

\* C8: after one non-terminal point q of a complete power-P cache is
\* removed, effectivePower(E, _, P, E) returns the largest P' <= P all of
\* whose points still have their file, 0 when there is none; for E = 521,
\* P = 4 and q = points[8] it returns 3.
C8_AfterRemoval ==
  (call.op = "effectivePower" /\ Cardinality(missingPoints) = 1) =>
     /\ call.status = "ok"
     /\ call.ret = Max({0} \cup {p \in 1..power : pointsOfPower(p) \subseteq DOMAIN files})
     /\ (E = 521 /\ power = 4 /\ missingPoints = {points[9]}) => call.ret = 3

\* C8 witness: the cache-resume scenario, E = 521, P = 4, points[8] removed
C8_Resume521 ==
  /\ call.op = "effectivePower" /\ E = 521 /\ power = 4
  /\ missingPoints = {points[9]}
  /\ call.ret = 3

\* ------------------------------------------------------------------------
\* Claims on computeProof and verify (SpecProof)
\* ------------------------------------------------------------------------
\* C1: whenever verify finishes on the proof computeProof returned from the
\* cache of an exact PRP run, it returns true, whatever digests the hash
\* function produced.
C1_HonestProofVerifies ==
  pc = "verified" => ver.ok = TRUE

\* a proof of power 4 with a challenge above 1 was built and verified
C1_Verified ==
  /\ pc = "verified"
  /\ ver.ok
  /\ Len(prf.middles) = 4
  /\ \E j \in 1..Len(ver.h) : ver.h[j] > 1

\* C11: the challenges verify recomputes from (E, B, M[]) are, index by
\* index, the challenges computeProof returned, so verify called with the
\* builder's challenges never stops at the cross-check.
C11_SameChallenges ==
  pc \in {"verify_loop", "verified"} =>
     /\ Len(ver.h) <= Len(call.hashes)
     /\ \A j \in 1..Len(ver.h) : ver.h[j] = call.hashes[j]
     /\ (pc = "verified" => Len(ver.h) = Len(call.hashes))

\* C11 witness: verify, handed the builder's three or more challenges, not
\* all equal, has recomputed every one of them
C11_CrossChecked ==
  /\ pc = "verified"
  /\ ver.hashes = call.hashes
  /\ Len(ver.h) >= 3
  /\ ver.h = call.hashes
  /\ \E i, j \in 1..Len(ver.h) : ver.h[i] # ver.h[j]

\* ------------------------------------------------------------------------
\* Claims on the NUMBER string (SpecNumber)
\* ------------------------------------------------------------------------
\* C13: mersenneFromString(mersenneToString(E, F)) returns E and leaves the
\* factor list equal to F, for every exponent E and every list F of factor
\* strings (positive decimal integers).
C13_NumberRoundTrip ==
  call.op = "mersenneFromString" =>
     /\ call.status = "ok"
     /\ call.ret = prf.E
     /\ call.knownFactors = prf.knownFactors

\* C13 witness: the round trip of an exponent with two factors, one of them
\* wider than 32 bits
C13_TwoFactors ==
  /\ call.op = "mersenneFromString" /\ call.status = "ok"
  /\ prf.E = 18178631
  /\ Len(call.knownFactors) = 2
  /\ Len(call.knownFactors[2]) > 10

\* ------------------------------------------------------------------------
\* Claims on the .proof file (SpecFile)
\* ------------------------------------------------------------------------
\* C12: Proof::load of the file Proof::save wrote for a proof with canonical
\* residues yields the same E, the same factor list, the same B and the
\* same middles in the same order.
C12_SaveThenLoad ==
  (call.op = "Proof::load" /\ call.from = "Proof::save") =>
     /\ call.status = "ok"
     /\ prf = call.saved

\* C12 witness: a proof of two words per residue, two factors and two
\* different middles came back from its file
C12_Loaded ==
  /\ call.op = "Proof::load" /\ call.from = "Proof::save" /\ call.status = "ok"
  /\ prf.E = 37
  /\ Len(prf.knownFactors) = 2
  /\ Len(prf.middles) = 2 /\ prf.middles[1] # prf.middles[2]

\* the header fields of the file as fscanf reads them
fileHeader == scanfHeader(proofFile)

\* C15: Proof::load fails with an invalid header on every file whose POWER
\* is outside [1,12], so no loaded proof has zero middles and verify's
\* assertion power > 0 never fails on a loaded proof.
C15_LoadRejectsBadPower ==
  /\ (call.op = "Proof::load" /\ fileHeader.count >= 1 /\ fileHeader.power \notin 1..MAX_POWER)
        => call.status = "throw"
  /\ (call.op = "Proof::load" /\ call.status = "ok") => Len(prf.middles) > 0
  /\ pc # "assert"

\* the segments of the NUMBER field behind the exponent
numberFactors == Tail(split(Tail(fileHeader.number), CHAR_SLASH))

\* C16: a header whose NUMBER has a factor equal to 1, or an empty factor
\* segment, is rejected as an invalid header.
C16_RejectsUnitOrEmptyFactor ==
  (/\ call.op = "Proof::load"
   /\ fileHeader.count = 3
   /\ Len(split(Tail(fileHeader.number), CHAR_SLASH)) >= 2
   /\ \E j \in 1..Len(numberFactors) : numberFactors[j] \in {<<>>, to_string(1)})
    => call.status = "throw"

\* ------------------------------------------------------------------------
\* Claims on the verdict (SpecProof)
\* ------------------------------------------------------------------------
\* C17: an accepted proof is reported 'probable prime' exactly when the B
\* stored in the proof equals 9 and 'composite' otherwise, whatever B has
\* become by folding; acceptance is A = B alone, so a valid proof of a
\* composite is accepted.
C17_VerdictFromStoredB ==
  pc = "verified" =>
     /\ ver.ok = (ver.A = ver.B)
     /\ ver.ok => (ver.log = "probable prime") = (prf.B = makeWords(prf.E, 9))
     /\ ver.ok => (ver.log = "composite") = (prf.B # makeWords(prf.E, 9))

\* C17 witness: the proof of the composite 2^11 - 1 is accepted and
\* reported composite
C17_CompositeAccepted ==
  /\ pc = "verified" /\ ver.ok /\ ver.log = "composite"
  /\ prf.E = 11 /\ prf.B # makeWords(11, 9)
  /\ ver.B # prf.B

\* ------------------------------------------------------------------------
\* Claims on the order of the levels (SpecProof)
\* ------------------------------------------------------------------------
\* C20 as stated: the builder reduces the levels in descending order, from
\* P - 1 down to 0, so that at level l the P - 1 - l levels above it are done.
C20_LevelsDescend ==
  pc = "build_segment" => bld.p = power - 1 - Len(bld.middles)

\* C20 amended: the builder reduces the levels in ascending order: it
\* starts at level 0, each finished level is followed by the next higher
\* one, and it returns the proof after level P - 1.
C20_LevelsAscend ==
  [][/\ (pc = "ready" /\ pc' = "build_level") => bld'.p = 0
     /\ (pc = "build_level" /\ pc' = "build_segment") =>
           (bld'.p = bld.p /\ bld.p = Len(bld.middles) /\ bld.p <= power - 1)
     /\ (pc = "build_segment" /\ pc' = "build_level") => bld'.p = bld.p + 1
     /\ (pc = "build_level" /\ pc' = "built") =>
           (bld.p = power /\ Len(prf'.middles) = power)]_vars

\* C20 witness: level 3 of a power-4 build is being reduced, levels 0..2 done
C20_LastLevel ==
  pc = "build_segment" /\ power = 4 /\ bld.p = 3 /\ Len(bld.middles) = 3

\* ------------------------------------------------------------------------
\* Claims on the work queue (SpecWork)
\* ------------------------------------------------------------------------
atRest == \A i \in Inst : work.proc[i].pc \in {"done", "assert"}

\* C18: under every interleaving of getWork by several instances no task
\* line is acquired by two instances, and no task line is lost: once every
\* instance is at rest each line the global worktodo started with is in
\* the global file or in a local one.
C18_AtomicMove ==
  /\ \A i, j \in Inst :
       (i # j /\ work.proc[i].pc = "done" /\ work.proc[j].pc = "done"
          /\ work.proc[i].ret # NoTask)
         => work.proc[i].ret # work.proc[j].ret
  /\ atRest =>
       \A n \in 1..Len(work.initial) :
          \/ hasLine(work.global, work.initial[n])
          \/ \E i \in Inst : hasLine(work.local[i], work.initial[n])

\* ------------------------------------------------------------------------
\* Claims on the size of a cache file (Spec)
\* ------------------------------------------------------------------------
\* the number of words the format description gives: ceil(E/32) + 1
statedWords(e) == (e + 31) \div 32 + 1

\* C21 as stated: the file a returned save wrote holds ceil(E/32) + 1 words
\* and a 4-byte checksum, and that size is the one fileExists accepts.
C21_SizeAsStated ==
  (call.op = "saved" /\ pc = "ready") =>
     /\ fileSize(fileAt(files, savePath(call.k))) = (statedWords(E) + 1) * 4
     /\ fileExists(files, E, call.k)

\* C21: the file a returned save wrote holds floor(E/32) + 1 words (the
\* words load reads) and a 4-byte checksum, so its size is
\* (floor(E/32) + 2) * 4 bytes, the size fileExists accepts.
C21_FileSize ==
  call.op = "saved" =>
     LET f == fileAt(files, savePath(call.k))
     IN /\ Len(f) = (E \div 32 + 1) + 1
        /\ SubSeq(f, 1, E \div 32 + 1) = call.words
        /\ fileSize(f) = (E \div 32 + 2) * 4
        /\ fileExists(files, E, call.k)

\* C21 witness: a save of the exponent 7 has returned and left 8 bytes
C21_EightBytes ==
  /\ call.op = "saved" /\ pc = "ready" /\ E = 7
  /\ fileSize(fileAt(files, savePath(call.k))) = 8

\* ------------------------------------------------------------------------
\* Claims on bestPower (SpecPower)
\* ------------------------------------------------------------------------
\* C22: for every exponent E > 0 of 32 bits bestPower(E) returns, its
\* value is at least 2, and the constructor accepts that value as a power.
C22_BestPowerAccepted ==
  (call.op = "bestPower" /\ ~(call.e4 = 0 /\ call.r = 0)) =>
     /\ call.status = "ok"
     /\ call.ret >= 2
     /\ call.accepted

\* A^(2^span) = B (mod 2^E - 1), span being ceil(E / 2^i) after i folds
foldRelation ==
  /\ expExp2(prf.E, ver.A, ver.span) = ver.B
  /\ ver.span = (prf.E + Pow2(ver.i) - 1) \div Pow2(ver.i)

\* C23: for a proof computeProof built from the cache of an exact PRP run,
\* A^(2^span) = B (mod 2^E - 1) holds at the start of verify's loop and
\* after every fold; a fold squares B exactly when the span entering it is
\* odd, and the span then becomes ceil(span / 2).
C23_FoldInvariant ==
  /\ [](pc = "verify_loop" => foldRelation)
  /\ [][(pc = "verify_loop" /\ pc' = "verify_loop") =>
          /\ ver'.span = (ver.span + 1) \div 2
          /\ ver'.B = expMul(prf.E, prf.middles[ver.i + 1], ver'.hash, ver.B,
                             ver.span % 2 = 1)]_vars

\* C23 witness: folds with an odd span (13, 7) and one with an even span (4)
\* have been made on a proof of 2^13 - 1
C23_OddAndEvenFolds ==
  /\ pc = "verify_loop" /\ prf.E = 13
  /\ ver.i = 3 /\ ver.span = 2
  /\ ver.A # makeWords(13, 3)

\* C24: the number of squarings verify hands to expExp2 after the P folds is
\* ceil(E / 2^P); it is the last span of the constructor for the same E and
\* P, and the smallest proof point.
C24_FinalSpan ==
  (pc = "verified" /\ ver.i = Len(prf.middles)) =>
     /\ Len(prf.middles) = power
     /\ ver.span = (E + Pow2(power) - 1) \div Pow2(power)
     /\ ver.span = spans(E, power)[power]
     /\ ver.span = points[1]

\* C24 witness: the proof of power 4 of 2^23 - 1 was checked with 2 squarings
C24_TwoSquarings ==
  /\ pc = "verified" /\ ver.i = 4
  /\ E = 23 /\ power = 4
  /\ ver.span = 2 /\ points[1] = 2

\* how many times x stands in the sequence q
timesIn(q, x) == Cardinality({j \in 1..Len(q) : q[j] = x})

RECURSIVE popcount(_)
popcount(n) == IF n = 0 THEN 0 ELSE (n % 2) + popcount(n \div 2)

\* C26: in computeProof none of the loop's assertions fails and the buffer
\* cursor never leaves the P buffers; after the segments 0 .. i of a level
\* are written and folded popcount(i + 1) buffers are live, at most P, and
\* at the end of every level exactly one buffer is live.
C26_BufferCursor ==
  /\ pc \notin {"assert", "out_of_bounds"}
  /\ (pc = "build_segment") =>
       (/\ Len(bld.bufs) = popcount(bld.i)
        /\ Len(bld.bufs) <= power
        /\ (popcount(bld.i) + 1 <= power \/ bld.i = Pow2(bld.p)))
  /\ (pc = "build_level" /\ bld.p > 0) => (Len(bld.bufs) = 1)

\* C26 witness: three buffers are live after segment 6 of level 3
C26_ThreeLive ==
  /\ pc = "build_segment" /\ power = 4 /\ bld.p = 3
  /\ bld.i = 7 /\ Len(bld.bufs) = 3

\* the digest the chain holds before the middle of level j + 1 is absorbed
digestBefore(j) ==
  IF j = 0 THEN oracle[[prefix |-> <<>>, bytes |-> bytesLE(E, bld.B)]]
  ELSE bld.hashes[j]

\* C27: while computeProof is at level p, exactly p middles and p
\* challenges exist and exactly the residues of the levels below p and of
\* the segments of level p done so far have been loaded, so M[p] is appended
\* and absorbed before any residue of level p + 1 is loaded; challenge j is
\* the digest of the running digest followed by M[j], derived after M[j]
\* was appended; and every fold of level p reads hashes[p - 1 - k] with
\* 0 <= p - 1 - k < p.
C27_ChallengeOrder ==
  pc \in {"build_level", "build_segment"} =>
     /\ Len(bld.hashes) = bld.p
     /\ Len(bld.middles) = bld.p
     /\ Len(bld.used) = Pow2(bld.p) - 1 + (IF pc = "build_segment" THEN bld.i ELSE 0)
     /\ \A j \in 1..bld.p :
          LET x == [prefix |-> <<digestBefore(j - 1)>>, bytes |-> bytesLE(E, bld.middles[j])]
          IN x \in DOMAIN oracle /\ bld.hashes[j] = oracle[x]
     /\ bld.p < power =>
          \A i \in 0..(Pow2(bld.p) - 1), k \in 0..power :
             (\A j \in 0..k : bitSet(i, j)) =>
                (0 <= bld.p - 1 - k /\ bld.p - 1 - k < Len(bld.hashes))

\* C27 witness: level 3 folds with the three challenges of the levels below
C27_ThirdLevel ==
  /\ pc = "build_segment" /\ bld.p = 3 /\ bld.i = 8
  /\ Len(bld.hashes) = 3 /\ Len(bld.used) = 15
  /\ bld.hashes[1] # bld.hashes[3]

\* ------------------------------------------------------------------------
\* Claims on the build over a damaged cache (SpecBuild)
\* ------------------------------------------------------------------------
\* a load of computeProof has thrown: the one of E, or the one of a segment
failedLoad ==
  /\ pc = "throw"
  /\ IF bld = NoBuild THEN TRUE ELSE bld.i < Pow2(bld.p)

\* the point whose load has thrown
failedPoint ==
  IF bld = NoBuild THEN E ELSE points[segIndex(power, bld.p, bld.i) + 1]

\* C28 as stated: when isValidTo(E) holds of the cache, no load of
\* computeProof on that cache fails.
C28_ValidThenLoads ==
  isValidTo(points, files, E, power, E).ret => ~failedLoad

\* C28: when isValidTo(E) holds of the cache, the load of E succeeds and
\* every file computeProof loads is present with the size fileExists
\* accepts; a load of computeProof then fails only on a file of that size
\* whose checksum does not match.
C28_ValidThenSized ==
  isValidTo(points, files, E, power, E).ret =>
     /\ load(files, E, power, E).status = "ok"
     /\ \A j \in 1..Pow2(power) : fileExists(files, E, points[j])
     /\ failedLoad =>
          (/\ failedPoint # E
           /\ fileExists(files, E, failedPoint)
           /\ fileAt(files, failedPoint) # honestCache(E, points)[failedPoint])
     /\ (damagedFiles = {}) => (pc # "throw")

\* C28 witness: isValidTo(E) holds and the build of power 3 has stopped on
\* the corrupt file of a middle point
C28_CorruptUnnoticed ==
  /\ isValidTo(points, files, E, power, E).ret
  /\ failedLoad /\ power = 3
  /\ bld.p = 1

\* ------------------------------------------------------------------------
\* Claims on the operations that read the cache (SpecFrame)
\* ------------------------------------------------------------------------
\* a step of computeProof, verify, next, load, fileExists, isValidTo or
\* effectivePower, whether it ends the operation, fails or is a step inside
readerStep ==
  \/ call'.op \in {"computeProof", "next", "load", "fileExists", "isValidTo", "effectivePower"}
  \/ pc' \in {"build_level", "build_segment", "built", "verify_loop", "verified",
              "throw", "assert", "out_of_bounds"}

\* C29: no step of computeProof, verify, next, load, fileExists, isValidTo
\* or effectivePower changes the cache, so a run that succeeds, fails or is
\* abandoned between two steps leaves every residue file as it was; and
\* when computeProof has failed no proof exists.
C29_ReadersKeepCache ==
  /\ [][readerStep => files' = files]_vars
  /\ []((pc \in {"throw", "assert", "out_of_bounds"}) => prf = NoProof)

\* C29 witness: a build has failed on a damaged file, which is still there
C29_FailedBuild ==
  /\ pc = "throw" /\ bld # NoBuild
  /\ damagedFiles # {}
  /\ prf = NoProof
  /\ power = 3

\* ------------------------------------------------------------------------
\* Claims on coarser proofs (SpecResume)
\* ------------------------------------------------------------------------
\* the points of the ProofSet of power p, without the guard
pointsIn(p) ==
  LET pts == ProofSetOf(E, p).pts IN {pts[j] : j \in 1..(Len(pts) - 1)}

\* C30: the proof points of power p - 1 are among the proof points of
\* power p for every p from 2 to P, and on a cache that is complete for
\* power P every smaller power is complete too: isValidTo(E) holds for it
\* and effectivePower asked for it returns it.
C30_CoarserComplete ==
  /\ \A p \in 2..power :
       /\ ProofSetOf(E, p - 1).status = "ok"
       /\ pointsIn(p - 1) \subseteq pointsIn(p)
       /\ pointsIn(p - 1) = pointsOfPower(p - 1)
  /\ (missingPoints = {}) =>
       \A p \in 1..power :
          /\ canDo(files, E, p, E) = [status |-> "ok", ret |-> TRUE]
          /\ effectivePower(files, E, p, E) = [status |-> "ok", ret |-> p]

\* C30 witness: the complete cache of power 4 of 2^521 - 1 was asked for
\* its effective power, and its points of power 3 are 8 of its 16
C30_Coarser521 ==
  /\ call.op = "effectivePower" /\ E = 521 /\ power = 4
  /\ missingPoints = {} /\ call.ret = 4
  /\ Cardinality(pointsIn(3)) = 8 /\ Cardinality(pointsIn(4)) = 16
  /\ pointsIn(3) \subseteq DOMAIN files

\* the steps of getWork of instance i between the first read of the size
\* and the return
inAttempt(i) ==
  work.proc[i].pc \in {"size", "best", "append", "delete_scan", "delete_check",
                       "delete_rename", "undo"}

validLines(f) == {j \in 1..Len(f) : parse(f[j]) # NoTask}

\* the positions bestTask chooses among: the CERT lines if there is one,
\* every valid line otherwise
poolOf(f) ==
  LET certs == {j \in validLines(f) : f[j].kind = "CERT"}
  IN IF certs # {} THEN certs ELSE validLines(f)

\* C32: bestTask returns the task of the earliest line among the lines of
\* the smallest exponent of the CERT lines, or of all valid lines when no
\* line is a CERT, and returns nothing only when no line parses to a task.
C32_BestTask ==
  call.op = "bestTask" =>
     LET f == call.lines
     IN IF validLines(f) = {} THEN call.ret = NoTask
        ELSE \E j \in poolOf(f) :
               /\ call.ret = f[j]
               /\ \A m \in poolOf(f) :
                    /\ f[m].exponent >= f[j].exponent
                    /\ (f[m].exponent = f[j].exponent) => (m >= j)

\* C32 witness: of two CERT lines of one exponent behind a smaller LL line
\* the first CERT line was returned
C32_EarliestCert ==
  /\ call.op = "bestTask" /\ Len(call.lines) = 3
  /\ call.lines[1].kind = "LL"
  /\ call.lines[2].kind = "CERT" /\ call.lines[2].aid = 5
  /\ call.lines[3].kind = "CERT" /\ call.lines[3].aid = 4
  /\ call.ret = call.lines[2]

\* ------------------------------------------------------------------------
\* Claims on getTask (SpecTask)
\* ------------------------------------------------------------------------
\* the calls that returned a command-line task: a task without a line
fromArgs(entry) == entry.task # NoTask /\ ~entry.line

\* the place of a command-line task in the order PRP, LL, VERIFY
rankOf(kind) == IF kind = "PRP" THEN 1 ELSE IF kind = "LL" THEN 2 ELSE 3

\* the command-line task of a kind as the arguments first held it
givenTask(a, kind) ==
  IF kind = "PRP" THEN [kind |-> "PRP", exponent |-> a.prpExp]
  ELSE IF kind = "LL" THEN [kind |-> "LL", exponent |-> a.llExp]
  ELSE [kind |-> "VERIFY", exponent |-> 0, verifyPath |-> a.verifyPath]

liveOf(w, slot) == {id \in 1..Len(w.bufs) : w.bufs[id].slot = slot /\ isLive(w, id)}

\* the step of thread t
trigStep(t) == pc = "trig" /\ work'.proc[t] # work.proc[t]

\* C34: under every interleaving of calls of the three functions and of
\* threads letting go of buffers, each key of each map has at most one
\* referenced buffer; a call that finds a referenced buffer under its key
\* takes that buffer and generates nothing, a buffer is generated only when
\* the key has no entry or the entry's buffer is no longer referenced, and
\* the buffer a call returns is the one the map holds under its key.
C34_OneLiveBufferPerKey ==
  /\ [](pc = "trig" => \A s \in Slots : Cardinality(liveOf(work, s)) <= 1)
  /\ [][\A t \in Threads : trigStep(t) =>
          LET c == IF work.proc[t].pc = "idle" THEN work'.proc[t].c ELSE work.proc[t].c
              s == slotOf(work.build, c)
          IN /\ (work.proc[t].pc = "idle" /\ work.m[s] # 0 /\ isLive(work, work.m[s])) =>
                  (/\ work'.proc[t].p = work.m[s]
                   /\ work'.proc[t].pc = "return"
                   /\ work'.bufs = work.bufs)
             /\ (Len(work'.bufs) > Len(work.bufs)) =>
                  (work.m[s] = 0 \/ ~isLive(work, work.m[s]))
             /\ (work.proc[t].pc = "return") =>
                  (/\ work.m[s] = work.proc[t].p
                   /\ work.proc[t].p \in work'.held[t]
                   /\ work'.bufs = work.bufs)]_vars

\* C34 witness: the first buffer of a key is no longer referenced, the
\* third buffer is of that key, was generated by smallTrigCombo and is held
\* by one thread, and a smallTrig call of the other thread is returning it
C34_RegeneratedAndShared ==
  /\ pc = "trig" /\ Len(work.bufs) = 3
  /\ work.bufs[1].slot = work.bufs[3].slot
  /\ ~isLive(work, 1)
  /\ work.bufs[3].gen.fn = "smallTrigCombo"
  /\ 3 \in work.held[1]
  /\ work.proc[2].pc = "return" /\ work.proc[2].p = 3
  /\ work.proc[2].c.fn = "smallTrig"

====
